---- MODULE Spec2Model ----
(***************************************************************************)
(* State-machine model of orbit/template/ktr.py (class KTRModel): the      *)
(* constructor's static attributes, the steps of set_dynamic_attributes    *)
(* (knot placement, regressor matrices, knot scales, level knots, prior    *)
(* filter), and predict and _get_regression_coefs_matrix called on the     *)
(* fitted object.                                                          *)
(*                                                                         *)
(* Encodings.                                                              *)
(*  - Dates are integers: training date i is the day index i, 0..N-1, so    *)
(*    the gap in periods between training_start and a date is the date.    *)
(*  - A time position t is kept as the integer t * N (N = number of         *)
(*    observations): tp (i+1)/N is the integer i+1.                        *)
(*  - Scales are integers in units of 1e-8 (0.1 is 10000000).              *)
(*  - Multipliers are integers in units of 1e-2 (1.0 is 100, 0.01 is 1).   *)
(*  - A Python list or array is a sequence; index i of Python is i+1 here. *)
(*  - An optional list argument that is None is the empty sequence, except *)
(*    regression_knot_dates, which is {} for None and {dates} when given.  *)
(*  - An attribute that no line of the class assigns is "unset"; reading   *)
(*    it raises AttributeError.                                            *)
(*  - regressor_init_knot_scale_dtype is the type of the entries of the    *)
(*    list regressor_init_knot_scale ("float64" or "int64"), which decides *)
(*    the dtype of the array np.array makes of it.                         *)
(*  - pc is "construct_failed" when the constructor raised.                *)
(*  - An array entry of predict is an exact number: a function from Gauss  *)
(*    kernel entries to rational factors (see Term).                       *)
(***************************************************************************)
EXTENDS Integers, Sequences, FiniteSets, TLC

VARIABLES
    args,           \* the arguments of the KTRModel(...) call
    self,           \* the attributes of the KTRModel object
    df,             \* the training table handed to set_dynamic_attributes
    training_meta,  \* the training metadata handed to set_dynamic_attributes
    ktrlite,        \* what the bootstrap model (ktrlite) returns when fitted
    pc,             \* where the caller is: constructed, a fit step, fitted, ...
    error,          \* the exception that ended the constructor or the fit ("" when none)
    multiplier,     \* the local variable multiplier of _set_knots_scale_matrix
    tp_call,        \* one call of the static method _set_knots_tp
    call,           \* the last call of predict or _get_regression_coefs_matrix
    calls           \* how many such calls were made on the fitted object

vars == <<args, self, df, training_meta, ktrlite, pc, error, multiplier, tp_call, call, calls>>

-----------------------------------------------------------------------------
(* Bounds of the model *)

\* most regressor columns declared
MaxRegs == 2
\* largest knot distance handed to _set_knots_tp on its own
MaxDistance == 9
\* largest cutoff handed to _set_knots_tp on its own
MaxCutoff == 14
\* longest prediction table, in rows
MaxHorizon == 4
\* most posterior samples
MaxSamples == 2
\* seeds of the random source
MaxSeed == 2
\* most calls made on one fitted object
MaxCalls == 1

-----------------------------------------------------------------------------
(* Program constants, ktr.py lines 78-83 *)

DEFAULT_REGRESSOR_SIGN == "="
DEFAULT_COEFFICIENTS_INIT_KNOT_SCALE == 100000000
DEFAULT_COEFFICIENTS_INIT_KNOT_LOC == 0
DEFAULT_COEFFICIENTS_KNOT_SCALE == 10000000
DEFAULT_LOWER_BOUND_SCALE_MULTIPLIER == 1

-----------------------------------------------------------------------------
(* Python and numpy helpers *)

Min(a, b) == IF a < b THEN a ELSE b

Max(a, b) == IF a > b THEN a ELSE b

\* math.ceil(a / b) for b > 0
CeilDiv(a, b) == -((-a) \div b)

\* Python 3 round(num / den) for den > 0: round half to even
PyRoundHalfUp(num, den) == (2 * num + den) \div (2 * den)

PyRound(num, den) ==
    LET q == num \div den
        r == num % den
    IN  IF 2 * r < den THEN q
        ELSE IF 2 * r > den THEN q + 1
        ELSE IF q % 2 = 0 THEN q ELSE q + 1

\* np.arange(start, stop, step) for integers, step > 0
ARange(start, stop, step) ==
    LET n == Max(0, CeilDiv(stop - start, step))
    IN  [i \in 1..n |-> start + (i - 1) * step]

\* [x for x in s if Test(x)], order kept
RECURSIVE SelectSeqIdx(_, _, _)
SelectSeqIdx(s, keep, i) ==
    IF i > Len(s) THEN <<>>
    ELSE (IF i \in keep THEN <<s[i]>> ELSE <<>>) \o SelectSeqIdx(s, keep, i + 1)

RECURSIVE SumSeq(_)
SumSeq(s) == IF s = <<>> THEN 0 ELSE Head(s) + SumSeq(Tail(s))

Abs(x) == IF x < 0 THEN -x ELSE x

Range(s) == {s[i] : i \in DOMAIN s}

-----------------------------------------------------------------------------
(* _set_knots_tp, ktr.py 399-406 *)

_set_knots_tp_half_up(knots_distance, cutoff) ==
    ARange(PyRoundHalfUp(knots_distance, 2), cutoff, knots_distance)

_set_knots_tp(knots_distance, cutoff) ==
    LET knots_idx_start == PyRound(knots_distance, 2)
        knots_idx == ARange(knots_idx_start, cutoff, knots_distance)
    IN  knots_idx

-----------------------------------------------------------------------------
(* KTRModel.__init__, ktr.py 158-278 *)

\* index of col in the list cols: np.where(np.array(cols) == col)[0][0]
IndexOf(cols, col) == (CHOOSE i \in DOMAIN cols : cols[i] = col /\ \A j \in 1..(i - 1) : cols[j] # col) - 1

\* the attributes as lines 196-275 leave them, before _set_static_attributes
InitAttributes(a) ==
    LET assigned ==
            [ level_knot_scale |-> a.level_knot_scale,
              level_knot_dates |-> a.level_knot_dates,
              _kernel_level |-> <<>>,
              knots_tp_level |-> <<>>,
              _level_knots |-> <<>>,
              _level_knot_dates |-> <<>>,
              _num_knots_level |-> 0,
              seasonality |-> a.seasonality,
              _seasonality |-> <<>>,
              _seasonal_knots_input |-> a.base_seasonal_knots_input,
              regressor_col |-> a.regressor_col,
              regressor_sign |-> a.regressor_sign,
              regressor_init_knot_loc |-> a.regressor_init_knot_loc,
              regressor_init_knot_scale |-> a.regressor_init_knot_scale,
              \* the type of the entries of that list: Python floats or ints
              regressor_init_knot_scale_dtype |-> a.regressor_init_knot_scale_dtype,
              regressor_knot_scale |-> a.regressor_knot_scale,
              regression_knot_distance |-> a.regression_knot_distance,
              regression_segments |-> a.regression_segments,
              _regression_knot_dates |-> a.regression_knot_dates,
              regression_rho |-> a.regression_rho,
              rho_coefficients |-> a.base_rho_coefficients,
              flat_multiplier |-> a.flat_multiplier,
              _regressor_sign |-> a.regressor_sign,
              _regressor_init_knot_loc |-> a.regressor_init_knot_loc,
              _regressor_init_knot_scale |-> a.regressor_init_knot_scale,
              _regressor_knot_scale |-> a.regressor_knot_scale,
              coef_prior_list |-> a.coef_prior_list,
              _coef_prior_list |-> <<>>,
              _regression_knots_idx |-> <<>>,
              _num_of_regressors |-> 0,
              _num_of_positive_regressors |-> 0,
              _positive_regressor_col |-> <<>>,
              _positive_regressor_init_knot_loc |-> <<>>,
              _positive_regressor_init_knot_scale |-> <<>>,
              _positive_regressor_knot_scale |-> <<>>,
              \* the number of axes of that list or array (its ndim)
              _positive_regressor_knot_scale_ndim |-> 1,
              _num_of_regular_regressors |-> 0,
              _regular_regressor_col |-> <<>>,
              _regular_regressor_init_knot_loc |-> <<>>,
              _regular_regressor_init_knot_scale |-> <<>>,
              _regular_regressor_knot_scale |-> <<>>,
              _regular_regressor_knot_scale_ndim |-> 1,
              _regressor_col |-> <<>>,
              _knots_tp_coefficients |-> <<>>,
              _positive_regressor_matrix |-> <<>>,
              _regular_regressor_matrix |-> <<>>,
              _cutoff |-> 0,
              _kernel_coefficients |-> <<>>,
              \* assigned by predict only (lines 933-936); <<>> is None
              pred_array |-> <<>> ]
    IN  \* line 225 stores the argument, line 243 overwrites it
        [assigned EXCEPT !.regression_segments = 0]

\* supplied lists at least as long as the list of columns count as valid
ParamsLenAtLeast(s) ==
    LET valid_length == Len(s.regressor_col)
        Ok(p) == Len(p) = 0 \/ Len(p) >= valid_length
    IN  /\ Ok(s.regressor_sign)
        /\ Ok(s.regressor_init_knot_loc)
        /\ Ok(s.regressor_init_knot_scale)
        /\ Ok(s.regressor_knot_scale)

\* _validate_params_len, lines 304-316: every supplied list has one entry per column
ParamsLenValid(s) ==
    LET valid_length == Len(s.regressor_col)
        Ok(p) == Len(p) = 0 \/ Len(p) = valid_length
    IN  /\ Ok(s.regressor_sign)
        /\ Ok(s.regressor_init_knot_loc)
        /\ Ok(s.regressor_init_knot_scale)
        /\ Ok(s.regressor_knot_scale)

\* _set_default_args, lines 286-330 (for lists that pass _validate_params_len)
_set_default_args(s) ==
    LET s1 == IF s.coef_prior_list # <<>>
              THEN [s EXCEPT !._coef_prior_list = s.coef_prior_list]
              ELSE s
        num_of_regressors == Len(s.regressor_col)
        Default(given, value) ==
            IF given = <<>> THEN [i \in 1..num_of_regressors |-> value] ELSE given
    IN  IF s.regressor_col = <<>>
        THEN [s1 EXCEPT !._regressor_sign = <<>>,
                        !._regressor_init_knot_loc = <<>>,
                        !._regressor_init_knot_scale = <<>>,
                        !._regressor_knot_scale = <<>>]
        ELSE [s1 EXCEPT
                !._regressor_sign = Default(s.regressor_sign, DEFAULT_REGRESSOR_SIGN),
                !._regressor_init_knot_loc =
                    Default(s.regressor_init_knot_loc, DEFAULT_COEFFICIENTS_INIT_KNOT_LOC),
                !._regressor_init_knot_scale =
                    Default(s.regressor_init_knot_scale, DEFAULT_COEFFICIENTS_INIT_KNOT_SCALE),
                !._regressor_knot_scale =
                    Default(s.regressor_knot_scale, DEFAULT_COEFFICIENTS_KNOT_SCALE),
                !._num_of_regressors = num_of_regressors]

\* the indices, in declaration order, of the columns whose sign is (is not) '+'
PositiveIdx(s) == {i \in DOMAIN s._regressor_sign : s._regressor_sign[i] = "+"}

RegularIdx(s) == {i \in DOMAIN s._regressor_sign : s._regressor_sign[i] # "+"}

\* line 355 with the two groups swapped
ConcatPositiveFirst(regular, positive) == positive \o regular

\* line 355: regular first, then positive
ConcatRegressorCol(regular, positive) == regular \o positive

\* lines 332-362 with the locations and scales of a group taken from the front
\* of the declared lists instead of the positions of the group's columns
_set_static_regression_attributes_from_front(s) ==
    IF s._num_of_regressors = 0 THEN s
    ELSE
        LET pos == PositiveIdx(s)
            reg == RegularIdx(s)
            Pick(list, keep) == SelectSeqIdx(list, keep, 1)
            Front(list, keep) == SubSeq(list, 1, Cardinality(keep))
            positive_regressor_col == Pick(s.regressor_col, pos)
            regular_regressor_col == Pick(s.regressor_col, reg)
        IN  [s EXCEPT
                !._num_of_positive_regressors = Cardinality(pos),
                !._positive_regressor_col = positive_regressor_col,
                !._positive_regressor_init_knot_loc = Front(s._regressor_init_knot_loc, pos),
                !._positive_regressor_init_knot_scale = Front(s._regressor_init_knot_scale, pos),
                !._positive_regressor_knot_scale = Front(s._regressor_knot_scale, pos),
                !._num_of_regular_regressors = Cardinality(reg),
                !._regular_regressor_col = regular_regressor_col,
                !._regular_regressor_init_knot_loc = Front(s._regressor_init_knot_loc, reg),
                !._regular_regressor_init_knot_scale = Front(s._regressor_init_knot_scale, reg),
                !._regular_regressor_knot_scale = Front(s._regressor_knot_scale, reg),
                !._regressor_col = ConcatRegressorCol(regular_regressor_col, positive_regressor_col)]

\* _set_static_regression_attributes, lines 332-362
_set_static_regression_attributes(s) ==
    IF s._num_of_regressors = 0 THEN s
    ELSE
        LET pos == PositiveIdx(s)
            reg == RegularIdx(s)
            Pick(list, keep) == SelectSeqIdx(list, keep, 1)
            positive_regressor_col == Pick(s.regressor_col, pos)
            regular_regressor_col == Pick(s.regressor_col, reg)
        IN  [s EXCEPT
                !._num_of_positive_regressors = Cardinality(pos),
                !._positive_regressor_col = positive_regressor_col,
                !._positive_regressor_init_knot_loc = Pick(s._regressor_init_knot_loc, pos),
                !._positive_regressor_init_knot_scale = Pick(s._regressor_init_knot_scale, pos),
                !._positive_regressor_knot_scale = Pick(s._regressor_knot_scale, pos),
                !._num_of_regular_regressors = Cardinality(reg),
                !._regular_regressor_col = regular_regressor_col,
                !._regular_regressor_init_knot_loc = Pick(s._regressor_init_knot_loc, reg),
                !._regular_regressor_init_knot_scale = Pick(s._regressor_init_knot_scale, reg),
                !._regular_regressor_knot_scale = Pick(s._regressor_knot_scale, reg),
                !._regressor_col = ConcatRegressorCol(regular_regressor_col, positive_regressor_col)]

\* _validate_coef_prior, lines 364-385: prior_mean, prior_sd and
\* prior_regressor_col of a prior have one length (the key names are the
\* record's fields)
CoefPriorValid(coef_prior_list) ==
    \A k \in DOMAIN coef_prior_list :
        LET x == coef_prior_list[k]
        IN  /\ Len(x.prior_mean) = Len(x.prior_regressor_col)
            /\ Len(x.prior_sd) = Len(x.prior_regressor_col)

\* lines 408-415 with the columns looked up in the declared list regressor_col
_set_coef_prior_idx_declared(s) ==
    IF s._coef_prior_list # <<>> /\ Len(s._regressor_col) > 0
    THEN [s EXCEPT !._coef_prior_list =
            [k \in DOMAIN s._coef_prior_list |->
                [s._coef_prior_list[k] EXCEPT !.prior_regressor_col_idx =
                    [c \in DOMAIN s._coef_prior_list[k].prior_regressor_col |->
                        IndexOf(s.regressor_col, s._coef_prior_list[k].prior_regressor_col[c])]]]]
    ELSE s

\* _set_coef_prior_idx, lines 408-415 (every prior column is a declared regressor)
_set_coef_prior_idx(s) ==
    IF s._coef_prior_list # <<>> /\ Len(s._regressor_col) > 0
    THEN [s EXCEPT !._coef_prior_list =
            [k \in DOMAIN s._coef_prior_list |->
                [s._coef_prior_list[k] EXCEPT !.prior_regressor_col_idx =
                    [c \in DOMAIN s._coef_prior_list[k].prior_regressor_col |->
                        IndexOf(s._regressor_col, s._coef_prior_list[k].prior_regressor_col[c])]]]]
    ELSE s

\* _set_static_attributes, lines 417-426
_set_static_attributes(s) ==
    LET s1 == _set_static_regression_attributes(_set_default_args(s))
    IN  IF s1._coef_prior_list # <<>> THEN _set_coef_prior_idx(s1) ELSE s1

\* the object KTRModel(**a) returns
Construct(a) == _set_static_attributes(InitAttributes(a))

\* the exception the constructor raises, "" when it returns: IllegalArgument
\* from _validate_params_len (line 307), which lines 294-302 skip when
\* regressor_col is None, and from _validate_coef_prior (lines 375, 385)
ConstructionError(a) ==
    LET s == InitAttributes(a)
    IN  IF a.regressor_col # <<>> /\ ~ParamsLenValid(s) THEN "IllegalArgument"
        ELSE IF a.coef_prior_list # <<>> /\ ~CoefPriorValid(a.coef_prior_list) THEN "IllegalArgument"
        ELSE ""

\* the state construction ends in: the object returned, or the attributes
\* assigned before the constructor raised
Constructed(a) ==
    IF ConstructionError(a) = ""
    THEN [self |-> Construct(a), pc |-> "constructed", error |-> ""]
    ELSE [self |-> InitAttributes(a), pc |-> "construct_failed", error |-> ConstructionError(a)]

-----------------------------------------------------------------------------
(* The constructor calls, training tables and bootstrap results explored *)

ColNames == <<"x1", "x2", "x3", "x4">>

Cols(k) == [i \in 1..k |-> ColNames[i]]

Reverse(s) == [i \in 1..Len(s) |-> s[Len(s) + 1 - i]]

\* regressor_col: None, or up to MaxRegs distinct columns in either order
RegressorColChoices == {<<>>} \cup {Cols(k) : k \in 1..MaxRegs} \cup {Reverse(Cols(k)) : k \in 1..MaxRegs}

SignLists(k) == [1..k -> {"=", "+"}]

\* supplied per-regressor lists, a different value for each position
GivenInitKnotLoc(k) == [i \in 1..k |-> i]

GivenInitKnotScale(k) == [i \in 1..k |-> IF i = 1 THEN 5000 ELSE 100000000 * i]

GivenKnotScale(k) == [i \in 1..k |-> IF i = 1 THEN 500000 ELSE IF i = 2 THEN 5000 ELSE 10000000 * i]

\* the rows of a regressor column, by the name of its shape
ColumnValues(pattern, n) ==
    [i \in 1..n |->
        CASE pattern = "ones" -> 1
          [] pattern = "zeros" -> 0
          [] pattern = "front" -> IF i <= CeilDiv(n, 2) THEN -200 ELSE 1
          [] pattern = "tail" -> IF i = n THEN 300 ELSE 0]

Patterns == {"ones", "zeros", "front", "tail"}

\* a table of n rows with the columns cols, column c filled by shape[c]
Table(n, cols, shape) ==
    [nrows |-> n,
     columns |-> Range(cols),
     values |-> [c \in Range(cols) |-> ColumnValues(shape[c], n)]]

AllOnes(cols) == [c \in Range(cols) |-> "ones"]

\* training metadata of a table of n rows: dates 0..n-1
MetaOf(n) ==
    [num_of_observations |-> n,
     date_array |-> [i \in 1..n |-> i - 1],
     training_start |-> 0,
     training_end |-> n - 1]

\* the bootstrap fit: level knot dates and one level knot value per date
Bootstrap(dates) ==
    [level_knot_dates |-> dates,
     lev_knot |-> [i \in 1..Len(dates) |-> 10 * i]]

DefaultArgs ==
    [ level_knot_scale |-> 10000000,
      level_knot_dates |-> <<>>,
      seasonality |-> <<>>,
      regressor_col |-> <<>>,
      regressor_sign |-> <<>>,
      regressor_init_knot_loc |-> <<>>,
      regressor_init_knot_scale |-> <<>>,
      regressor_init_knot_scale_dtype |-> "float64",
      regressor_knot_scale |-> <<>>,
      regression_segments |-> 5,
      regression_knot_distance |-> 0,
      regression_knot_dates |-> {},
      regression_rho |-> 150,
      flat_multiplier |-> TRUE,
      coef_prior_list |-> <<>>,
      base_seasonal_knots_input |-> "unset",
      base_rho_coefficients |-> {} ]

World(a, n, shape, dates) ==
    [args |-> a, df |-> Table(n, a.regressor_col, shape), ktrlite |-> Bootstrap(dates)]

\* every column order and sign list, with default and with supplied prior lists
WorldsStatic ==
    { World([DefaultArgs EXCEPT !.regressor_col = cols,
                                !.regressor_sign = signs,
                                !.regressor_init_knot_loc = IF given THEN GivenInitKnotLoc(Len(cols)) ELSE <<>>,
                                !.regressor_init_knot_scale = IF given THEN GivenInitKnotScale(Len(cols)) ELSE <<>>,
                                !.regressor_knot_scale = IF given THEN GivenKnotScale(Len(cols)) ELSE <<>>],
            4, AllOnes(cols), <<0, 3>>) :
        <<cols, signs, given>> \in
            { t \in RegressorColChoices \X (UNION {SignLists(k) : k \in 0..MaxRegs}) \X BOOLEAN :
                /\ Len(t[2]) \in {0, Len(t[1])}
                /\ t[3] => Len(t[1]) > 0 } }

\* knot placement: one regressor; a declared segment count, a knot distance or
\* explicit knot dates (in order, out of order, repeated, partly or wholly
\* outside the training dates); tables of 4 to 100 rows
ObsCounts == {4, 5, 6, 10, 100}

KnotDateChoices(n) == {<<1, 3>>, <<3, 1>>, <<2, 2>>, <<-1, 2, n + 1>>, <<n, n + 1>>}

\* a table of 100 rows is placed by segment count only
PlacementChoices(n) ==
    {[DefaultArgs EXCEPT !.regression_segments = k] : k \in {0, 2, 5}}
    \cup (IF n = 100 THEN {}
          ELSE {[DefaultArgs EXCEPT !.regression_knot_distance = d] : d \in 1..3}
               \cup {[DefaultArgs EXCEPT !.regression_knot_dates = {dates}] : dates \in KnotDateChoices(n)})

WorldsKnots ==
    { World([t[2] EXCEPT !.regressor_col = <<"x1">>], t[1], AllOnes(<<"x1">>), <<0, t[1] - 1>>) :
        t \in UNION {{<<n, a>> : a \in PlacementChoices(n)} : n \in ObsCounts} }

\* knot scales: every sign list, both multiplier modes, every column shape
WorldsScale ==
    { World([DefaultArgs EXCEPT !.regressor_col = Cols(Len(t[1])),
                                !.regressor_sign = t[1],
                                !.flat_multiplier = t[2],
                                !.regression_knot_distance = 2,
                                !.regressor_knot_scale = IF t[3] THEN GivenKnotScale(Len(t[1])) ELSE <<>>,
                                !.regressor_init_knot_scale = IF t[3] THEN GivenInitKnotScale(Len(t[1])) ELSE <<>>],
            t[4], [c \in Range(Cols(Len(t[1]))) |-> t[5][IndexOf(Cols(Len(t[1])), c) + 1]], <<0, t[4] - 1>>) :
        t \in UNION { SignLists(k) \X BOOLEAN \X BOOLEAN \X (IF k = 1 THEN {4, 5} ELSE {4})
                        \X {f \in [1..k -> Patterns] : \A i \in 2..k : f[i] \in {"ones", "front"}} :
                      k \in 1..MaxRegs } }

\* two regressors of one sign over three knots: a table of 6 observations
\* with a knot every 2
WorldsThreeKnots ==
    { World([DefaultArgs EXCEPT !.regressor_col = Cols(2),
                                !.regressor_sign = signs,
                                !.regression_knot_distance = 2],
            6, AllOnes(Cols(2)), <<0, 5>>) :
        signs \in {<<"=", "=">>, <<"+", "+">>, <<"+", "=">>} }

\* initial knot scales given as Python ints: 0 and 1, -1 and 2
IntInitKnotScale == {<<0, 100000000>>, <<-100000000, 200000000>>}

WorldsIntScale ==
    { World([DefaultArgs EXCEPT !.regressor_col = Cols(2),
                                !.regressor_sign = t[1],
                                !.regression_knot_distance = 2,
                                !.regressor_init_knot_scale = t[2],
                                !.regressor_init_knot_scale_dtype = "int64"],
            4, AllOnes(Cols(2)), <<0, 3>>) :
        t \in SignLists(2) \X IntInitKnotScale }

\* a supplied list of k entries (none when k = 0)
GivenSigns(k) == [i \in 1..k |-> IF i = 1 THEN "+" ELSE "="]

\* every length of every per-regressor list against every number of columns
WorldsLength ==
    { World([DefaultArgs EXCEPT !.regressor_col = Cols(t[1]),
                                !.regressor_sign = GivenSigns(t[2]),
                                !.regressor_init_knot_loc = GivenInitKnotLoc(t[3]),
                                !.regressor_init_knot_scale = GivenInitKnotScale(t[4]),
                                !.regressor_knot_scale = GivenKnotScale(t[5])],
            4, AllOnes(Cols(t[1])), <<0, 3>>) :
        t \in { u \in (0..MaxRegs) \X (0..MaxRegs) \X (0..MaxRegs) \X (0..MaxRegs) \X (0..MaxRegs) :
                  \* without columns, at most one list is supplied
                  u[1] = 0 => Cardinality({i \in 2..5 : u[i] > 0}) <= 1 } }

\* coefficient priors: windows with ends below 0, inside and above the table
PriorIdx == {-2, 0, 3, 5, 12}

\* the dict of a prior; prior_regressor_col_idx is <<>> until _set_coef_prior_idx adds the key
Prior(name, start, end) ==
    [name |-> name,
     prior_start_tp_idx |-> start,
     prior_end_tp_idx |-> end,
     prior_mean |-> <<0>>,
     prior_sd |-> <<1>>,
     prior_regressor_col |-> <<"x1">>,
     prior_regressor_col_idx |-> <<>>]

PriorLists ==
    { <<Prior("p", w[1], w[2])>> : w \in PriorIdx \X PriorIdx }
    \cup { <<Prior("p", t[1][1], t[1][2]), Prior(t[3], t[2][1], t[2][2])>> :
            t \in {<<0, 3>>, <<5, 3>>, <<-2, 0>>, <<3, 12>>, <<12, 12>>}
                  \X {<<0, 3>>, <<5, 3>>, <<-2, 0>>, <<3, 12>>} \X {"p", "q"} }

WorldsPrior ==
    { World([DefaultArgs EXCEPT !.regressor_col = cols, !.coef_prior_list = priors],
            10, AllOnes(cols), <<0, 9>>) :
        <<cols, priors>> \in {<<>>, <<"x1">>} \X PriorLists }

\* a prior on the columns cols, one mean and sd for each
PriorOn(cols) ==
    [Prior("p", 0, 3) EXCEPT !.prior_regressor_col = cols,
                             !.prior_mean = [c \in DOMAIN cols |-> 0],
                             !.prior_sd = [c \in DOMAIN cols |-> 1]]

\* priors on one or both of two regressors, the positive one declared first
\* or both unconstrained
WorldsPriorOrder ==
    { World([DefaultArgs EXCEPT !.regressor_col = Cols(2),
                                !.regressor_sign = t[1],
                                !.coef_prior_list = <<PriorOn(t[2])>>],
            4, AllOnes(Cols(2)), <<0, 3>>) :
        t \in {<<"+", "=">>, <<"=", "=">>}
                \X {<<"x1">>, <<"x2">>, <<"x1", "x2">>, <<"x2", "x1">>} }

\* level knots: what the bootstrap returns, and what the base class leaves in
\* the attributes that KTRModel reads and never assigns
LevelDateChoices(n) ==
    {<<n - 1>>, <<1, 2>>, <<0, 2>>, <<0, n - 1>>, <<-1, n>>, <<-1, 2>>, <<-1, 1, 3>>, <<1, 3, n>>}

BaseChoices ==
    {<<"unset", {}>>, <<"None", {}>>, <<"None", {150}>>, <<"None", {300}>>}

WorldsLevel ==
    { World([DefaultArgs EXCEPT !.regressor_col = t[1][1],
                                !.regressor_sign = t[1][2],
                                !.regression_knot_distance = 2,
                                !.base_seasonal_knots_input = t[2][1],
                                !.base_rho_coefficients = t[2][2]],
            t[3][1], AllOnes(t[1][1]), t[3][2]) :
        t \in {<<<<>>, <<>>>>, <<<<"x1">>, <<>>>>, <<<<"x1", "x2">>, <<"+", "=">>>>}
              \X BaseChoices
              \X UNION {{<<n, dates>> : dates \in LevelDateChoices(n)} : n \in {4, 5}} }

\* declared seasonal periods, shorter and longer than the table
SeasonalityChoices == {<<3>>, <<7>>, <<2, 7>>}

WorldsSeasonal ==
    { World([DefaultArgs EXCEPT !.seasonality = t[1],
                                !.regressor_col = t[2],
                                !.base_seasonal_knots_input = t[4][1],
                                !.base_rho_coefficients = t[4][2]],
            t[3], AllOnes(t[2]), <<0, 3>>) :
        t \in SeasonalityChoices \X {<<>>, <<"x1">>} \X {4, 10}
                \X {<<"unset", {}>>, <<"None", {150}>>} }

-----------------------------------------------------------------------------
(* Kernels (orbit/utils/kernels.py) *)

RECURSIVE GCD(_, _)
GCD(a, b) == IF b = 0 THEN a ELSE GCD(b, a % b)

\* the fraction num/den (den > 0, num >= 0) in lowest terms
Frac(num, den) == LET g == GCD(num, den) IN <<num \div g, den \div g>>

\* gauss_kernel(x, x_i, rho): entry [i][j] is exp(-(x[i] - x_i[j])^2 / (2 rho^2)).
\* exp is one-to-one, so the entry is kept as the fraction (x[i] - x_i[j])^2 / rho^2
\* in lowest terms (positions in units of 1/N, rho in units of 1e-3).
gauss_kernel(x, x_i, rho) ==
    [i \in 1..Len(x) |->
        [j \in 1..Len(x_i) |-> Frac((x[i] - x_i[j]) * (x[i] - x_i[j]), rho * rho)]]

-----------------------------------------------------------------------------
(* set_dynamic_attributes, ktr.py 792-799, step by step *)

\* df.filter(items=cols).values: the listed columns the table has, in the order
\* listed, one row per table row
FilterValues(table, cols) ==
    LET present == SelectSeq(cols, LAMBDA c : c \in table.columns)
    IN  [i \in 1..table.nrows |-> [c \in 1..Len(present) |-> table.values[present[c]][i]]]

\* np.zeros((n, 0))
ZeroColumns(n) == [i \in 1..n |-> <<>>]

\* lines 453-457: a declared regressor column is missing from the table
RegressorColumnsMissing(s, table) ==
    s.regressor_col # <<>> /\ ~(Range(s.regressor_col) \subseteq table.columns)

\* _set_regressor_matrix, lines 450-470, past the column check
_set_regressor_matrix(s, table, meta) ==
    LET num_of_observations == meta.num_of_observations
    IN  [s EXCEPT
            !._positive_regressor_matrix =
                IF s._num_of_positive_regressors > 0
                THEN FilterValues(table, s._positive_regressor_col)
                ELSE ZeroColumns(num_of_observations),
            !._regular_regressor_matrix =
                IF s._num_of_regular_regressors > 0
                THEN FilterValues(table, s._regular_regressor_col)
                ELSE ZeroColumns(num_of_observations)]

\* lines 490-494: the knot distance when no knot dates are given; line 482 has
\* set self.regression_segments to 0 just before
KnotsDistance(s) ==
    IF s.regression_knot_distance # 0
    THEN s.regression_knot_distance
    ELSE LET number_of_knots == s.regression_segments + 1
         IN  CeilDiv(s._cutoff, number_of_knots)

\* lines 517-520: the given dates inside the table's date range, order kept
DatesInRange(dates, meta) ==
    SelectSeq(dates, LAMBDA x : x <= meta.training_end /\ x >= meta.training_start)

\* _set_coefficients_kernel_matrix, lines 472-538
_set_coefficients_kernel_matrix(s, table, meta) ==
    LET num_of_observations == meta.num_of_observations
        tp == [i \in 1..num_of_observations |-> i]
        s0 == [s EXCEPT !._cutoff = num_of_observations,
                        !._kernel_coefficients = ZeroColumns(num_of_observations),
                        !.regression_segments = 0]
        even ==
            LET knots_distance == KnotsDistance(s0)
                knots_idx_coef == _set_knots_tp(knots_distance, s0._cutoff)
            IN  [s0 EXCEPT
                    !._knots_tp_coefficients = [k \in DOMAIN knots_idx_coef |-> 1 + knots_idx_coef[k]],
                    !._regression_knot_dates =
                        {[k \in DOMAIN knots_idx_coef |-> meta.date_array[knots_idx_coef[k] + 1]]},
                    !._regression_knots_idx = knots_idx_coef]
        explicit ==
            LET given == CHOOSE d \in s0._regression_knot_dates : TRUE
                regression_knot_dates == DatesInRange(given, meta)
                start_date == meta.training_start
                end_date == meta.training_end
                regression_knots_idx == [k \in DOMAIN regression_knot_dates |-> regression_knot_dates[k] - start_date]
            IN  [s0 EXCEPT
                    !._regression_knot_dates = {regression_knot_dates},
                    \* (idx + 1) / (gap(start, end) + 1), and gap(start, end) + 1 = N
                    !._knots_tp_coefficients = [k \in DOMAIN regression_knots_idx |-> regression_knots_idx[k] + 1],
                    !._regression_knots_idx = regression_knots_idx]
        placed == IF s0._regression_knot_dates = {} THEN even ELSE explicit
    IN  IF s0._num_of_regressors > 0
        THEN [placed EXCEPT
                !.regression_segments = Len(placed._knots_tp_coefficients),
                !._kernel_coefficients = gauss_kernel(tp, placed._knots_tp_coefficients, s.regression_rho)]
        ELSE s0

\* the lower bound of the scale parameters, 1e-4 (lines 577, 580, 617, 620)
ScaleFloor == 10000

\* rows str_idx..end_idx-1 of column r: <<sum of absolute values, number of rows>>;
\* np.mean of an empty slice is nan, kept as a count of 0
LocalAbs(matrix, r, str_idx, end_idx) ==
    LET count == Max(0, end_idx - str_idx)
    IN  <<SumSeq([i \in 1..count |-> Abs(matrix[str_idx + i][r])]), count>>

\* lines 550-558 (591-599): local_val[r][idx] for the segment that starts at knot idx
LocalVal(matrix, r, knots_idx, num_of_observations) ==
    [idx \in 1..Len(knots_idx) |->
        LET str_idx == knots_idx[idx]
            end_idx == IF idx < Len(knots_idx) THEN knots_idx[idx + 1] ELSE num_of_observations
        IN  LocalAbs(matrix, r, str_idx, end_idx)]

\* the absolute values of column r
AbsColumn(matrix, r) == [i \in 1..Len(matrix) |-> Abs(matrix[i][r])]

\* the k-th smallest entry of a sequence
Kth(values, k) ==
    CHOOSE v \in Range(values) :
        /\ Cardinality({i \in DOMAIN values : values[i] < v}) < k
        /\ k <= Cardinality({i \in DOMAIN values : values[i] <= v})

\* twice np.median(values)
Median2(values) ==
    LET n == Len(values)
    IN  IF n % 2 = 1 THEN 2 * Kth(values, (n + 1) \div 2)
        ELSE Kth(values, n \div 2) + Kth(values, n \div 2 + 1)

\* line 563 with <= for <
TestFlagMeanInclusive(local, values) ==
    local[2] > 0 /\ 100 * local[1] * Len(values) <= SumSeq(values) * local[2]

\* line 563: local_val < 0.01 * global, global the mean of the absolute values;
\* a comparison with nan is False
TestFlagMean(local, values) ==
    local[2] > 0 /\ 100 * local[1] * Len(values) < SumSeq(values) * local[2]

\* line 604: local_val < 0.01 * global, global the median of the absolute values
TestFlagMedian(local, values) ==
    local[2] > 0 /\ 200 * local[1] < Median2(values) * local[2]

\* lines 544-567 with the test of line 563 applied whatever flat_multiplier is
PositiveMultiplierUnconditional(s, num_of_observations) ==
    [r \in 1..s._num_of_positive_regressors |->
        LET local_val == LocalVal(s._positive_regressor_matrix, r,
                                  s._regression_knots_idx, num_of_observations)
        IN  [idx \in 1..s.regression_segments |->
                IF TestFlagMean(local_val[idx], AbsColumn(s._positive_regressor_matrix, r))
                THEN DEFAULT_LOWER_BOUND_SCALE_MULTIPLIER
                ELSE 100]]

\* lines 544-567: the multiplier of the positive regressors
PositiveMultiplier(s, num_of_observations) ==
    [r \in 1..s._num_of_positive_regressors |->
        LET local_val == LocalVal(s._positive_regressor_matrix, r,
                                  s._regression_knots_idx, num_of_observations)
        IN  [idx \in 1..s.regression_segments |->
                IF s.flat_multiplier THEN 100
                ELSE IF TestFlagMean(local_val[idx], AbsColumn(s._positive_regressor_matrix, r))
                     THEN DEFAULT_LOWER_BOUND_SCALE_MULTIPLIER
                     ELSE 100]]

\* lines 585-607: the multiplier of the regular regressors; both branches of
\* line 586 give ones and the loop and the test of lines 591-605 follow either
RegularMultiplier(s, num_of_observations) ==
    [r \in 1..s._num_of_regular_regressors |->
        LET local_val == LocalVal(s._regular_regressor_matrix, r,
                                  s._regression_knots_idx, num_of_observations)
        IN  [idx \in 1..s.regression_segments |->
                IF TestFlagMedian(local_val[idx], AbsColumn(s._regular_regressor_matrix, r))
                THEN DEFAULT_LOWER_BOUND_SCALE_MULTIPLIER
                ELSE 100]]

\* x[x < 1e-4] = 1e-4
Floored(x) == IF x < ScaleFloor THEN ScaleFloor ELSE x

\* lines 579-580 (619-620): np.array(list) of Python ints is an integer array,
\* and assigning 1e-4 into an integer array stores int(1e-4) = 0
FlooredArray(dtype, scale) ==
    [r \in DOMAIN scale |->
        IF dtype = "int64"
        THEN (IF scale[r] < ScaleFloor THEN 0 ELSE scale[r])
        ELSE Floored(scale[r])]

\* lines 573-577 (613-617): multiplier * np.expand_dims(knot_scale, -1), floored
KnotScaleMatrix(mult, knot_scale) ==
    [r \in DOMAIN mult |->
        [idx \in DOMAIN mult[r] |-> Floored(mult[r][idx] * (knot_scale[r] \div 100))]]

\* The same product when knot_scale is the 2-D array an earlier call left
\* there: multiplier has shape (P, K) and np.expand_dims(knot_scale, -1) shape
\* (P, K, 1), and numpy broadcasts (1, P, K) with (P, K, 1) when P = K or one
\* of them is 1.
KnotScaleBroadcastable(mult, regression_segments) ==
    LET P == Len(mult)
        K == regression_segments
    IN  P = K \/ P = 1 \/ K = 1

\* the (P, D, K) array of that product, D the broadcast of P and K, floored
KnotScaleCube(mult, knot_scale, regression_segments) ==
    LET P == Len(mult)
        K == regression_segments
        D == IF P = 1 THEN K ELSE P
    IN  [i \in 1..P |->
            [j \in 1..D |->
                [k \in 1..K |->
                    Floored((mult[IF P = 1 THEN 1 ELSE j][k]
                             * knot_scale[i][IF K = 1 THEN 1 ELSE j]) \div 100)]]]

\* lines 573-577 (613-617) for the list of the constructor and for the array
\* of an earlier call
KnotScaleArray(mult, knot_scale, ndim, regression_segments) ==
    IF ndim = 1
    THEN KnotScaleMatrix(mult, knot_scale)
    ELSE KnotScaleCube(mult, knot_scale, regression_segments)

\* lines 541-580: the positive branch of _set_knots_scale_matrix
PositiveKnotsScale(s, num_of_observations) ==
    IF s._num_of_positive_regressors > 0
    THEN [s EXCEPT
            !._positive_regressor_knot_scale =
                KnotScaleArray(PositiveMultiplier(s, num_of_observations), @,
                               s._positive_regressor_knot_scale_ndim, s.regression_segments),
            !._positive_regressor_knot_scale_ndim = @ + 1,
            !._positive_regressor_init_knot_scale =
                FlooredArray(s.regressor_init_knot_scale_dtype, @)]
    ELSE s

\* line 573 raises: the shapes of the positive branch do not broadcast
PositiveScaleRaises(s, num_of_observations) ==
    /\ s._num_of_positive_regressors > 0
    /\ s._positive_regressor_knot_scale_ndim > 1
    /\ ~KnotScaleBroadcastable(PositiveMultiplier(s, num_of_observations), s.regression_segments)

\* line 613 raises: the shapes of the regular branch do not broadcast
RegularScaleRaises(s, num_of_observations) ==
    /\ s._num_of_regular_regressors > 0
    /\ s._regular_regressor_knot_scale_ndim > 1
    /\ ~KnotScaleBroadcastable(RegularMultiplier(s, num_of_observations), s.regression_segments)

\* _set_knots_scale_matrix, lines 540-620
_set_knots_scale_matrix(s, meta) ==
    LET num_of_observations == meta.num_of_observations
        s1 == PositiveKnotsScale(s, num_of_observations)
    IN  IF s._num_of_regular_regressors > 0
        THEN [s1 EXCEPT
                !._regular_regressor_knot_scale =
                    KnotScaleArray(RegularMultiplier(s, num_of_observations), @,
                                   s._regular_regressor_knot_scale_ndim, s.regression_segments),
                !._regular_regressor_knot_scale_ndim = @ + 1,
                !._regular_regressor_init_knot_scale =
                    FlooredArray(s.regressor_init_knot_scale_dtype, @)]
        ELSE s1

\* the local variable multiplier of each branch of _set_knots_scale_matrix
\* (<<>> for a branch that is skipped)
Multipliers(s, meta) ==
    [positive |-> IF s._num_of_positive_regressors > 0
                  THEN PositiveMultiplier(s, meta.num_of_observations) ELSE <<>>,
     regular |-> IF s._num_of_regular_regressors > 0
                 THEN RegularMultiplier(s, meta.num_of_observations) ELSE <<>>]

\* the line through the last two knots carried on beyond the last knot
SandwichWeightExtrapolated(t, x_i, j) ==
    LET n == Len(x_i)
    IN  IF t < x_i[1] THEN (IF j = 1 THEN <<1, 1>> ELSE <<0, 1>>)
        ELSE IF t >= x_i[n] /\ n = 1 THEN <<1, 1>>
        ELSE IF t >= x_i[n]
        THEN (IF j = n - 1 THEN <<x_i[n] - t, x_i[n] - x_i[n - 1]>>
              ELSE IF j = n THEN <<t - x_i[n - 1], x_i[n] - x_i[n - 1]>>
              ELSE <<0, 1>>)
        ELSE LET m == CHOOSE m \in 1..(n - 1) : x_i[m] <= t /\ t < x_i[m + 1]
                 total_dist == x_i[m + 1] - x_i[m]
             IN  IF j = m THEN Frac(x_i[m + 1] - t, total_dist)
                 ELSE IF j = m + 1 THEN Frac(t - x_i[m], total_dist)
                 ELSE <<0, 1>>

\* sandwich_kernel(x, x_i) for increasing knots x_i: row i splits weight 1
\* between the knots around x[i], by distance; all of it on the first (last)
\* knot when x[i] is before (at or after) it. A weight is a fraction in lowest terms.
SandwichWeight(t, x_i, j) ==
    LET n == Len(x_i)
    IN  IF t < x_i[1] THEN (IF j = 1 THEN <<1, 1>> ELSE <<0, 1>>)
        ELSE IF t >= x_i[n] THEN (IF j = n THEN <<1, 1>> ELSE <<0, 1>>)
        ELSE LET m == CHOOSE m \in 1..(n - 1) : x_i[m] <= t /\ t < x_i[m + 1]
                 total_dist == x_i[m + 1] - x_i[m]
             IN  IF j = m THEN Frac(x_i[m + 1] - t, total_dist)
                 ELSE IF j = m + 1 THEN Frac(t - x_i[m], total_dist)
                 ELSE <<0, 1>>

sandwich_kernel(x, x_i) ==
    [i \in 1..Len(x) |-> [j \in 1..Len(x_i) |-> SandwichWeight(x[i], x_i, j)]]

\* lines 735-741: the positions of the level knot dates inside the table's range
LevelKnotsKept(level_knot_dates, meta) ==
    {i \in DOMAIN level_knot_dates :
        level_knot_dates[i] <= meta.training_end /\ level_knot_dates[i] >= meta.training_start}

\* lines 731-743 with the values taken from the front of the bootstrap's
\* values, as many as dates are kept
TrimLevelKnotsValuesFromFront(s, meta, boot) ==
    LET keep == LevelKnotsKept(boot.level_knot_dates, meta)
    IN  [s EXCEPT !.level_knot_dates = boot.level_knot_dates,
                  !._level_knot_dates = SelectSeqIdx(boot.level_knot_dates, keep, 1),
                  !._level_knots = SubSeq(boot.lev_knot, 1, Cardinality(keep))]

\* lines 731-743: the bootstrap's level knots, trimmed to the training dates
TrimLevelKnots(s, meta, boot) ==
    LET keep == LevelKnotsKept(boot.level_knot_dates, meta)
    IN  [s EXCEPT !.level_knot_dates = boot.level_knot_dates,
                  !._level_knot_dates = SelectSeqIdx(boot.level_knot_dates, keep, 1),
                  !._level_knots = SelectSeqIdx(boot.lev_knot, keep, 1)]

\* the test of the dates the bootstrap placed, before trimming
NoLevelKnotsPlaced(s) == ~(Len(s.level_knot_dates) > 0)

\* line 747 fails: no level knot is left
NoLevelKnots(s) == ~(Len(s._level_knots) > 0 /\ Len(s.level_knot_dates) > 0)

\* _set_levs_and_seas, lines 744-770, for a trimmed s with level knots left
RecordLevelKernel(s, meta) ==
    LET num_of_observations == meta.num_of_observations
        tp == [i \in 1..num_of_observations |-> i]
        start_date == meta.training_start
        \* (gap(start, date) + 1) / (gap(start, training_end) + 1)
        knots_tp_level == [i \in DOMAIN s._level_knot_dates |-> s._level_knot_dates[i] - start_date + 1]
    IN  [s EXCEPT !.knots_tp_level = knots_tp_level,
                  !._kernel_level = sandwich_kernel(tp, knots_tp_level),
                  !._num_knots_level = Len(s._level_knot_dates),
                  !._seasonal_knots_input = IF s._seasonality # <<>> THEN "dict" ELSE @]

\* dict == dict on two priors, key by key in the order the keys are documented
\* (line 111), stopping at the first difference
PriorEq(a, b) ==
    /\ a.name = b.name
    /\ a.prior_start_tp_idx = b.prior_start_tp_idx
    /\ a.prior_end_tp_idx = b.prior_end_tp_idx
    /\ a.prior_mean = b.prior_mean
    /\ a.prior_sd = b.prior_sd
    /\ a.prior_regressor_col = b.prior_regressor_col
    /\ a.prior_regressor_col_idx = b.prior_regressor_col_idx

\* list.remove(x): the list without its first element equal to x
ListRemove(list, x) ==
    LET first == CHOOSE i \in DOMAIN list : PriorEq(list[i], x) /\ \A j \in 1..(i - 1) : ~PriorEq(list[j], x)
    IN  [i \in 1..(Len(list) - 1) |-> IF i < first THEN list[i] ELSE list[i + 1]]

\* lines 779-780: min(idx, df.shape[0])
ClampIdx(idx, nrows) == Min(idx, nrows)

\* np.full((rows, len(m)), m)
NpFull(rows, m) == [i \in 1..rows |-> m]

\* lines 775-790: the loop over the copy. Every removal so far took an element
\* from before copy[k], so copy[k] is the element of list at position
\* k - (Len(copy) - Len(list)).
RECURSIVE FilterLoop(_, _, _, _)
FilterLoop(list, copy, k, nrows) ==
    IF k > Len(copy) THEN list
    ELSE
        LET test_dict == copy[k]
            end_tp_idx == ClampIdx(test_dict.prior_end_tp_idx, nrows)
            start_tp_idx == ClampIdx(test_dict.prior_start_tp_idx, nrows)
            pos == k - (Len(copy) - Len(list))
            updated ==
                [test_dict EXCEPT
                    !.prior_end_tp_idx = end_tp_idx,
                    !.prior_start_tp_idx = start_tp_idx,
                    !.prior_mean = NpFull(end_tp_idx - start_tp_idx, test_dict.prior_mean),
                    !.prior_sd = NpFull(end_tp_idx - start_tp_idx, test_dict.prior_sd)]
        IN  IF start_tp_idx < end_tp_idx
            THEN FilterLoop([list EXCEPT ![pos] = updated], copy, k + 1, nrows)
            ELSE FilterLoop(ListRemove(list, test_dict), copy, k + 1, nrows)

\* _filter_coef_prior, lines 772-790
_filter_coef_prior(s, table) ==
    IF s._coef_prior_list # <<>> /\ Len(s._regressor_col) > 0
    THEN [s EXCEPT !._coef_prior_list = FilterLoop(@, @, 1, table.nrows)]
    ELSE s

-----------------------------------------------------------------------------
(* Array arithmetic of predict and _get_regression_coefs_matrix *)

\* The rational num/den (den > 0) in lowest terms.
RatNorm(num, den) ==
    IF num = 0 THEN <<0, 1>>
    ELSE LET g == GCD(Abs(num), den) IN <<num \div g, den \div g>>

RatAdd(a, b) == RatNorm(a[1] * b[2] + b[1] * a[2], a[2] * b[2])

RatMul(a, b) == RatNorm(a[1] * b[1], a[2] * b[2])

\* An array entry is a sum of rational multiples of Gauss kernel entries: the
\* function from the kernel entry (its exponent fraction, <<0, 1>> for the
\* entry 1) to its non-zero rational factor. Entries with different exponents
\* are linearly independent over the rationals, so two sums are the same
\* number exactly when they are the same function.
Zero == [e \in {} |-> <<0, 1>>]

Coef(v, e) == IF e \in DOMAIN v THEN v[e] ELSE <<0, 1>>

\* r * exp(-e / 2)
Term(r, e) == IF r[1] = 0 THEN Zero ELSE [x \in {e} |-> r]

\* the rational r
Num(r) == Term(r, <<0, 1>>)

ValAdd(a, b) ==
    LET sum == [e \in (DOMAIN a) \cup (DOMAIN b) |-> RatAdd(Coef(a, e), Coef(b, e))]
    IN  [e \in {x \in DOMAIN sum : sum[x][1] # 0} |-> sum[e]]

ValScale(r, v) == IF r[1] = 0 THEN Zero ELSE [e \in DOMAIN v |-> RatMul(r, v[e])]

\* np.sum over a list of entries
RECURSIVE ValSum(_)
ValSum(seq) == IF seq = <<>> THEN Zero ELSE ValAdd(Head(seq), ValSum(Tail(seq)))

\* np.zeros((rows, cols))
Zeros(rows, cols) == [i \in 1..rows |-> [j \in 1..cols |-> Zero]]

\* np.matmul(lev_knot, kernel_level.transpose((1, 0))), line 906:
\* (samples x knots) by (knots x steps)
MatmulLevel(lev_knot, kernel_level) ==
    [smp \in DOMAIN lev_knot |->
        [t \in DOMAIN kernel_level |->
            ValSum([j \in DOMAIN kernel_level[t] |->
                        Num(RatMul(<<lev_knot[smp][j], 1>>, kernel_level[t][j]))])]]

\* np.matmul(coef_knots, kernel.transpose((1, 0))).transpose((0, 2, 1)),
\* lines 970-972 and 1007-1008: samples x steps x regressors
MatmulCoefs(coef_knots, kernel) ==
    [smp \in DOMAIN coef_knots |->
        [t \in DOMAIN kernel |->
            [p \in DOMAIN coef_knots[smp] |->
                ValSum([k \in DOMAIN kernel[t] |->
                            Term(<<coef_knots[smp][p][k], 1>>, kernel[t][k])])]]]

\* the left operand alone
AddArraysLeftOnly(a, b) == a

\* a + b for a of shape (samples, steps) and b of shape (1, steps) or (samples, steps)
AddArrays(a, b) ==
    [smp \in DOMAIN a |->
        [t \in DOMAIN a[smp] |-> ValAdd(a[smp][t], b[IF Len(b) = 1 THEN 1 ELSE smp][t])]]

-----------------------------------------------------------------------------
(* The posterior samples, prediction tables and random draws explored *)

\* the samples the estimator hands back for the fitted object s: lev_knot is
\* samples x level knots, coef_knot is samples x regressors x regression knots
Posterior(num_sample, s) ==
    [lev_knot |-> [smp \in 1..num_sample |->
                      [j \in 1..Len(s.knots_tp_level) |-> 7 * smp + 3 * j * j]],
     coef_knot |-> [smp \in 1..num_sample |->
                      [p \in 1..Len(s._regressor_col) |->
                          [k \in 1..Len(s._knots_tp_coefficients) |-> 2 * smp + 3 * p - 2 * k]]],
     obs_scale |-> [smp \in 1..num_sample |-> smp]]

NoPosterior == [lev_knot |-> <<>>, coef_knot |-> <<>>, obs_scale |-> <<>>]

\* a prediction table: rows for the dates start_date, start_date + 1, ..., a
\* different value in every cell
PredictionTable(start_date, nrows, cols) ==
    [nrows |-> nrows,
     columns |-> Range(cols),
     values |-> [c \in Range(cols) |-> [i \in 1..nrows |-> 5 * i + IndexOf(ColNames, c) + 1]]]

\* the prediction metadata the forecaster derives from the table's dates
PredictionMetaOf(start_date, nrows) ==
    [df_length |-> nrows,
     prediction_start |-> start_date,
     date_array |-> [i \in 1..nrows |-> start_date + i - 1]]

NoMeta == [df_length |-> 0, prediction_start |-> 0, date_array |-> <<>>]

\* np.random.laplace(0, scale, size): the increment of sample smp, new knot j,
\* under the seed
Laplace(seed, smp, j) == IF (seed + smp + j) % 2 = 0 THEN 4 * seed + smp ELSE -(3 * j + seed)

\* nct.rvs(..., scale=obs_scale, size): the noise of sample smp at step t
Noise(seed, obs_scale, smp, t) == obs_scale[smp] * (IF (seed + t) % 2 = 0 THEN seed + t ELSE -(smp + t))

-----------------------------------------------------------------------------
(* _get_regression_coefs_matrix, ktr.py 940-1016, and predict, ktr.py 829-938 *)

\* the record of a call: its arguments, the locals it got to, how it ended
NoFrame ==
    [op |-> "none",
     posterior |-> NoPosterior,
     table |-> PredictionTable(0, 0, <<>>),
     prediction_meta |-> NoMeta,
     date_array |-> {},
     include_error |-> FALSE,
     store_prediction_array |-> FALSE,
     seed |-> 0,
     outcome |-> "",
     start |-> 0,
     new_tp |-> <<>>,
     new_knots_tp_level |-> <<>>,
     lev_knot |-> <<>>,
     kernel_level |-> <<>>,
     seas |-> <<>>,
     trend |-> <<>>,
     regressor_matrix |-> <<>>,
     regressor_betas |-> <<>>,
     regression |-> <<>>,
     epsilon |-> <<>>,
     decomp_dict |-> {},
     returned_none |-> FALSE,
     \* the object a second set_dynamic_attributes was called on ({} otherwise)
     self_at_entry |-> {}]

\* pd.Index(date_array).get_loc(x) finds x
InDateArray(date_array, x) == x \in Range(date_array)

\* is_ordered_datetime(array): ordered and without repeats (lines 982-983)
is_ordered_datetime(array) == \A i \in 1..(Len(array) - 1) : array[i] < array[i + 1]

\* positions counted from the index itself
NewTpFromIndex(start, output_len) == [i \in 1..output_len |-> start + i - 1]

\* np.arange(start + 1, start + output_len + 1) / num_of_observations
NewTp(start, output_len) == [i \in 1..output_len |-> start + i]

\* _generate_tp, lines 622-635, for a prediction_date_array whose first date is
\* after the training end or is a training date
_generate_tp(meta, prediction_date_array) ==
    LET training_end == meta.training_end
        num_of_observations == meta.num_of_observations
        date_array == meta.date_array
        prediction_start == prediction_date_array[1]
        output_len == Len(prediction_date_array)
        start == IF prediction_start > training_end
                 THEN num_of_observations
                 ELSE IndexOf(date_array, prediction_start)
    IN  NewTp(start, output_len)

\* the same without the test of lines 986-987
_get_regression_coefs_matrix_any_start(s, meta, posteriors, date_array) ==
    LET num_of_observations == meta.num_of_observations
        training_start == meta.training_start
        training_end == meta.training_end
        train_date_array == meta.date_array
        coef_knots == posteriors.coef_knot
        result(outcome, none, betas) == [outcome |-> outcome, none |-> none, regressor_betas |-> betas]
    IN  IF s._num_of_regular_regressors + s._num_of_positive_regressors = 0
        THEN result("returned", TRUE, <<>>)
        ELSE IF date_array = {}
        THEN result("returned", FALSE, MatmulCoefs(coef_knots, s._kernel_coefficients))
        ELSE
            LET dates == CHOOSE d \in date_array : TRUE
                output_len == Len(dates)
                train_len == num_of_observations
                prediction_start == dates[1]
                start == IF prediction_start > training_end
                         THEN train_len
                         ELSE IndexOf(train_date_array, prediction_start)
                new_tp == NewTp(start, output_len)
            IN  IF ~is_ordered_datetime(dates) THEN result("IllegalArgument", FALSE, <<>>)
                ELSE IF prediction_start <= training_end /\ ~InDateArray(train_date_array, prediction_start)
                THEN result("KeyError", FALSE, <<>>)
                \* line 1004 reads self.rho_coefficients
                ELSE IF s.rho_coefficients = {} THEN result("AttributeError", FALSE, <<>>)
                ELSE
                    LET rho == CHOOSE r \in s.rho_coefficients : TRUE
                        kernel_coefficients == gauss_kernel(new_tp, s._knots_tp_coefficients, rho)
                    IN  result("returned", FALSE, MatmulCoefs(coef_knots, kernel_coefficients))

\* _get_regression_coefs_matrix(training_meta, posteriors, date_array):
\* date_array is {} for None and {dates} when given. The result names how
\* the call ended, whether it returned None, and the array it returned.
_get_regression_coefs_matrix(s, meta, posteriors, date_array) ==
    LET num_of_observations == meta.num_of_observations
        training_start == meta.training_start
        training_end == meta.training_end
        train_date_array == meta.date_array
        coef_knots == posteriors.coef_knot
        result(outcome, none, betas) == [outcome |-> outcome, none |-> none, regressor_betas |-> betas]
    IN  IF s._num_of_regular_regressors + s._num_of_positive_regressors = 0
        THEN result("returned", TRUE, <<>>)
        ELSE IF date_array = {}
        THEN result("returned", FALSE, MatmulCoefs(coef_knots, s._kernel_coefficients))
        ELSE
            LET dates == CHOOSE d \in date_array : TRUE
                output_len == Len(dates)
                train_len == num_of_observations
                prediction_start == dates[1]
                start == IF prediction_start > training_end
                         THEN train_len
                         ELSE IndexOf(train_date_array, prediction_start)
                new_tp == NewTp(start, output_len)
            IN  IF ~is_ordered_datetime(dates) THEN result("IllegalArgument", FALSE, <<>>)
                ELSE IF prediction_start < training_start THEN result("ModelException", FALSE, <<>>)
                ELSE IF prediction_start <= training_end /\ ~InDateArray(train_date_array, prediction_start)
                THEN result("KeyError", FALSE, <<>>)
                \* line 1004 reads self.rho_coefficients
                ELSE IF s.rho_coefficients = {} THEN result("AttributeError", FALSE, <<>>)
                ELSE
                    LET rho == CHOOSE r \in s.rho_coefficients : TRUE
                        kernel_coefficients == gauss_kernel(new_tp, s._knots_tp_coefficients, rho)
                    IN  result("returned", FALSE, MatmulCoefs(coef_knots, kernel_coefficients))

\* k / n is a double without rounding for every k: n is a power of two
Dyadic(n) == \E k \in 0..n : 2 ^ k = n

\* np.arange(start, stop, step) has ceil((stop - start) / step) elements. The
\* three are doubles computed from positions k / num_of_observations; unless
\* those are exact, when the exact quotient is a whole number the rounded one
\* can fall above it, and then there is one element more
\* (0.4, 0.6 and 0.8: 0.6 + (0.6 - 0.4) < 0.8).
ARangeLen(start, stop, step, num_of_observations, rounded_up) ==
    LET exact == CeilDiv(stop - start, step)
    IN  IF (stop - start) % step = 0 /\ ~Dyadic(num_of_observations) /\ rounded_up
        THEN exact + 1
        ELSE exact

\* lines 868-886 without the cumulative sum of line 880: every new knot is the
\* last fitted knot value plus its own increment only
ExtendLevelWithoutCumsum(s, num_of_observations, lev_knot_in, new_tp, seed, rounded_up) ==
    LET n == Len(s.knots_tp_level)
        last == s.knots_tp_level[n]
        lev_knot_width == s.knots_tp_level[n] - s.knots_tp_level[n - 1]
        num_out == ARangeLen(last + lev_knot_width, new_tp[Len(new_tp)], lev_knot_width,
                             num_of_observations, rounded_up)
        knots_tp_level_out == [j \in 1..num_out |-> last + lev_knot_width * j]
        lev_knot_out ==
            [smp \in DOMAIN lev_knot_in |->
                [j \in 1..num_out |->
                    lev_knot_in[smp][Len(lev_knot_in[smp])] + Laplace(seed, smp, j)]]
    IN  IF new_tp[Len(new_tp)] >= last + lev_knot_width
        THEN [new_knots_tp_level |-> s.knots_tp_level \o knots_tp_level_out,
              lev_knot |-> [smp \in DOMAIN lev_knot_in |-> lev_knot_in[smp] \o lev_knot_out[smp]]]
        ELSE [new_knots_tp_level |-> s.knots_tp_level, lev_knot |-> lev_knot_in]

\* lines 868-886 with one knot value drawn for every whole knot width the
\* forecast reaches, the width that ends at the last position included, while
\* the positions are those of line 876
ExtendLevelCountingWidths(s, num_of_observations, lev_knot_in, new_tp, seed, rounded_up) ==
    LET n == Len(s.knots_tp_level)
        last == s.knots_tp_level[n]
        lev_knot_width == s.knots_tp_level[n] - s.knots_tp_level[n - 1]
        num_out == ARangeLen(last + lev_knot_width, new_tp[Len(new_tp)], lev_knot_width,
                             num_of_observations, rounded_up)
        num_widths == (new_tp[Len(new_tp)] - last) \div lev_knot_width
        knots_tp_level_out == [j \in 1..num_out |-> last + lev_knot_width * j]
        increments == [smp \in DOMAIN lev_knot_in |-> [j \in 1..num_widths |-> Laplace(seed, smp, j)]]
        lev_knot_out ==
            [smp \in DOMAIN lev_knot_in |->
                [j \in 1..num_widths |->
                    lev_knot_in[smp][Len(lev_knot_in[smp])] + SumSeq(SubSeq(increments[smp], 1, j))]]
    IN  IF new_tp[Len(new_tp)] >= last + lev_knot_width
        THEN [new_knots_tp_level |-> s.knots_tp_level \o knots_tp_level_out,
              lev_knot |-> [smp \in DOMAIN lev_knot_in |-> lev_knot_in[smp] \o lev_knot_out[smp]]]
        ELSE [new_knots_tp_level |-> s.knots_tp_level, lev_knot |-> lev_knot_in]

\* lines 868-886 with include_error: the level knots and knot values used
ExtendLevel(s, num_of_observations, lev_knot_in, new_tp, seed, rounded_up) ==
    LET n == Len(s.knots_tp_level)
        last == s.knots_tp_level[n]
        lev_knot_width == s.knots_tp_level[n] - s.knots_tp_level[n - 1]
        num_out == ARangeLen(last + lev_knot_width, new_tp[Len(new_tp)], lev_knot_width,
                             num_of_observations, rounded_up)
        knots_tp_level_out == [j \in 1..num_out |-> last + lev_knot_width * j]
        increments == [smp \in DOMAIN lev_knot_in |-> [j \in 1..num_out |-> Laplace(seed, smp, j)]]
        \* np.cumsum(concatenate([last column, increments]))[:, 1:]
        lev_knot_out ==
            [smp \in DOMAIN lev_knot_in |->
                [j \in 1..num_out |->
                    lev_knot_in[smp][Len(lev_knot_in[smp])] + SumSeq(SubSeq(increments[smp], 1, j))]]
    IN  IF new_tp[Len(new_tp)] >= last + lev_knot_width
        THEN [new_knots_tp_level |-> s.knots_tp_level \o knots_tp_level_out,
              lev_knot |-> [smp \in DOMAIN lev_knot_in |-> lev_knot_in[smp] \o lev_knot_out[smp]]]
        ELSE [new_knots_tp_level |-> s.knots_tp_level, lev_knot |-> lev_knot_in]

\* the value of _generate_seas (lines 653-700) at step t: Fourier columns
\* times the seasonal coefficient curve, kept as an unknown of its own
SeasonalTerm(t) == Term(<<1, 1>>, <<-1, t>>)

\* numpy broadcasts (samples, steps, P) * (steps, R) when P = R or one of them is 1
Broadcastable(P, R) == P = R \/ P = 1 \/ R = 1

\* np.sum(regressor_betas * regressor_matrix, axis=-1), line 916
RegressionSum(regressor_betas, regressor_matrix, P, R) ==
    [smp \in DOMAIN regressor_betas |->
        [t \in DOMAIN regressor_matrix |->
            ValSum([c \in 1..(IF P = 1 THEN R ELSE P) |->
                        ValScale(<<regressor_matrix[t][IF R = 1 THEN 1 ELSE c], 1>>,
                                 regressor_betas[smp][t][IF P = 1 THEN 1 ELSE c])])]]

\* the prediction kept, and the level knot positions dropped with the last one
StorePredictionArrayOnly(s, store_prediction_array, pred_array) ==
    [s EXCEPT !.pred_array = IF store_prediction_array THEN pred_array ELSE <<>>,
              !.knots_tp_level = <<>>]

\* lines 933-936: self.pred_array is the prediction, or None
StorePredictionArray(s, store_prediction_array, pred_array) ==
    [s EXCEPT !.pred_array = IF store_prediction_array THEN pred_array ELSE <<>>]

\* predict(posterior_estimates, df, training_meta, prediction_meta, include_error,
\* store_prediction_array), lines 829-938: the frame of the call as it ends,
\* with the locals assigned before an exception left in it
predict(s, meta, posterior_estimates, table, prediction_meta, include_error, store_prediction_array, seed, rounded_up) ==
    LET model == posterior_estimates
        num_sample == Len(model.lev_knot)
        output_len == prediction_meta.df_length
        prediction_start == prediction_meta.prediction_start
        date_array == meta.date_array
        num_of_observations == meta.num_of_observations
        training_end == meta.training_end
        start == IF prediction_start > training_end
                 THEN num_of_observations
                 ELSE IndexOf(date_array, prediction_start)
        new_tp == NewTp(start, output_len)
        level == IF include_error
                 THEN ExtendLevel(s, num_of_observations, model.lev_knot, new_tp, seed, rounded_up)
                 ELSE [new_knots_tp_level |-> s.knots_tp_level, lev_knot |-> model.lev_knot]
        kernel_level == sandwich_kernel(new_tp, level.new_knots_tp_level)
        seas == IF s._seasonal_knots_input = "dict"
                THEN <<[t \in 1..output_len |-> SeasonalTerm(t)]>>
                ELSE Zeros(1, output_len)
        trend == MatmulLevel(level.lev_knot, kernel_level)
        regressor_matrix == FilterValues(table, s._regressor_col)
        coefs == _get_regression_coefs_matrix(s, meta, posterior_estimates, {prediction_meta.date_array})
        P == s._num_of_regressors
        R == Len(regressor_matrix[1])
        regression == IF s._num_of_regressors > 0
                      THEN RegressionSum(coefs.regressor_betas, regressor_matrix, P, R)
                      ELSE Zeros(num_sample, output_len)
        epsilon == [smp \in 1..num_sample |->
                       [t \in 1..Len(new_tp) |-> Num(<<Noise(seed, model.obs_scale, smp, t), 1>>)]]
        pred_array == IF include_error
                      THEN AddArrays(AddArrays(AddArrays(trend, seas), regression), epsilon)
                      ELSE AddArrays(AddArrays(trend, seas), regression)
        decomp_dict == [prediction |-> pred_array,
                        trend |-> trend,
                        seasonality_input |-> seas,
                        regression |-> regression]
        called == [NoFrame EXCEPT !.op = "predict",
                                  !.posterior = posterior_estimates,
                                  !.table = table,
                                  !.prediction_meta = prediction_meta,
                                  !.date_array = {prediction_meta.date_array},
                                  !.include_error = include_error,
                                  !.store_prediction_array = store_prediction_array,
                                  !.seed = IF include_error THEN seed ELSE 0]
        at_level == [called EXCEPT !.start = start, !.new_tp = new_tp]
        at_seas == [at_level EXCEPT !.new_knots_tp_level = level.new_knots_tp_level,
                                    !.lev_knot = level.lev_knot,
                                    !.kernel_level = kernel_level]
        at_regression == [at_seas EXCEPT !.seas = seas, !.trend = trend]
        at_sum == [at_regression EXCEPT !.regressor_matrix = regressor_matrix,
                                        !.regressor_betas = coefs.regressor_betas]
        at_return == [(IF s._num_of_regressors > 0 THEN at_sum ELSE at_regression) EXCEPT
                          !.regression = regression,
                          !.epsilon = IF include_error THEN epsilon ELSE <<>>,
                          !.decomp_dict = {decomp_dict},
                          !.outcome = "returned"]
        raised(frame, exception) == [frame |-> [frame EXCEPT !.outcome = exception], self |-> s]
    IN  \* line 865: get_loc of a date that is not a training date
        IF prediction_start <= training_end /\ ~InDateArray(date_array, prediction_start)
        THEN raised(called, "KeyError")
        \* line 872: knots_tp_level[-2] of a one-element array
        ELSE IF include_error /\ Len(s.knots_tp_level) < 2
        THEN raised(at_level, "IndexError")
        \* line 893 reads self._seasonal_knots_input
        ELSE IF s._seasonal_knots_input = "unset"
        THEN raised(at_seas, "AttributeError")
        ELSE IF s._num_of_regressors > 0 /\ coefs.outcome # "returned"
        THEN raised([at_regression EXCEPT !.regressor_matrix = regressor_matrix], coefs.outcome)
        \* line 916: the shapes do not broadcast
        ELSE IF s._num_of_regressors > 0 /\ ~Broadcastable(P, R)
        THEN raised(at_sum, "ValueError")
        ELSE [frame |-> at_return,
              self |-> StorePredictionArray(s, store_prediction_array, pred_array)]

\* the date arrays handed to _get_regression_coefs_matrix on its own: None,
\* the training dates, dates inside, across and after them, a date before
\* them, dates out of order
DateArrayChoices(meta) ==
    LET n == meta.num_of_observations
    IN  {{}, {meta.date_array}, {<<1, 2>>}, {<<n - 1, n>>}, {<<n, n + 1>>}, {<<n + 2>>},
         {<<-1, 0>>}, {<<2, 1>>}, {<<-1, -2>>}}

\* the columns a prediction table has: all the declared ones, all but the
\* first declared, or none of them
TableColumnChoices(cols) ==
    {cols} \cup (IF cols = <<>> THEN {} ELSE {Tail(cols), <<>>})

\* prediction starts: before the training dates, the first and the last
\* training date, the day after the last, and later
PredictionStarts(meta) ==
    LET n == meta.num_of_observations
    IN  {-1, 0, n - 1, n, n + 1}

\* the predict calls explored: every start and length with and without noise,
\* and for two of them every table, sample count, seed and store flag
PredictRequests(meta, cols) ==
    LET request(start_date, nrows, present, include_error, store, num_sample, seed) ==
            [prediction_start |-> start_date, df_length |-> nrows, columns |-> present,
             include_error |-> include_error, store_prediction_array |-> store,
             num_sample |-> num_sample, seed |-> seed]
        n == meta.num_of_observations
    IN  { request(p, len, cols, e, FALSE, 1, 1) :
            <<p, len, e>> \in PredictionStarts(meta) \X (1..MaxHorizon) \X BOOLEAN }
        \cup
        { request(t[1][1], t[1][2], t[2], FALSE, FALSE, t[3], 1) :
            t \in {<<0, 2>>, <<n, MaxHorizon>>} \X TableColumnChoices(cols) \X (1..MaxSamples) }
        \cup
        { request(n, MaxHorizon, cols, TRUE, t[1], t[2], t[3]) :
            t \in BOOLEAN \X (1..MaxSamples) \X (1..MaxSeed) }

-----------------------------------------------------------------------------
(* The steps of set_dynamic_attributes and the calls on a fitted object as actions *)

env == <<args, df, training_meta, ktrlite, tp_call, call, calls>>

\* line 794; self._seasonality is None (line 211), so lines 432-437 are skipped
Step_set_valid_response_attributes ==
    /\ pc = "constructed"
    /\ IF self._seasonality # <<>>
          /\ \E i \in DOMAIN self._seasonality :
                training_meta.num_of_observations < self._seasonality[i]
       THEN pc' = "fit_failed" /\ error' = "ModelException"
       ELSE pc' = "_set_regressor_matrix" /\ error' = error
    /\ UNCHANGED <<self, multiplier, env>>

\* line 795
Step_set_regressor_matrix ==
    /\ pc = "_set_regressor_matrix"
    /\ IF RegressorColumnsMissing(self, df)
       THEN /\ pc' = "fit_failed"
            /\ error' = "ModelException"
            /\ self' = self
       ELSE /\ pc' = "_set_coefficients_kernel_matrix"
            /\ error' = error
            /\ self' = _set_regressor_matrix(self, df, training_meta)
    /\ UNCHANGED <<multiplier, env>>

\* line 796
Step_set_coefficients_kernel_matrix ==
    /\ pc = "_set_coefficients_kernel_matrix"
    /\ self' = _set_coefficients_kernel_matrix(self, df, training_meta)
    /\ pc' = "_set_knots_scale_matrix"
    /\ UNCHANGED <<error, multiplier, env>>

\* line 797
Step_set_knots_scale_matrix ==
    /\ pc = "_set_knots_scale_matrix"
    /\ self' = _set_knots_scale_matrix(self, training_meta)
    /\ multiplier' = Multipliers(self, training_meta)
    /\ pc' = "_set_levs_and_seas"
    /\ UNCHANGED <<error, env>>

\* line 798
Step_set_levs_and_seas ==
    /\ pc = "_set_levs_and_seas"
    /\ LET trimmed == TrimLevelKnots(self, training_meta, ktrlite)
       IN  IF NoLevelKnots(trimmed)
           THEN /\ self' = trimmed
                /\ pc' = "fit_failed"
                /\ error' = "ModelException"
           ELSE /\ self' = RecordLevelKernel(trimmed, training_meta)
                /\ pc' = "_filter_coef_prior"
                /\ error' = error
    /\ UNCHANGED <<multiplier, env>>

\* line 799
Step_filter_coef_prior ==
    /\ pc = "_filter_coef_prior"
    /\ self' = _filter_coef_prior(self, df)
    /\ pc' = "fitted"
    /\ UNCHANGED <<error, multiplier, env>>

\* predict on the fitted object; a stored prediction array is the only
\* attribute it assigns
Call_predict ==
    /\ pc = "fitted"
    /\ calls < MaxCalls
    /\ calls' = calls + 1
    /\ \E r \in PredictRequests(training_meta, self._regressor_col) :
        \* the rounding of line 876 is only met when the level is extended
        \E rounded_up \in (IF r.include_error THEN BOOLEAN ELSE {FALSE}) :
          LET done == predict(self, training_meta, Posterior(r.num_sample, self),
                              PredictionTable(r.prediction_start, r.df_length, r.columns),
                              PredictionMetaOf(r.prediction_start, r.df_length),
                              r.include_error, r.store_prediction_array, r.seed, rounded_up)
          IN  /\ call' = done.frame
              /\ self' = done.self
    /\ UNCHANGED <<args, df, training_meta, ktrlite, pc, error, multiplier, tp_call>>

\* _get_regression_coefs_matrix on the fitted object
Call_get_regression_coefs_matrix ==
    /\ pc = "fitted"
    /\ calls < MaxCalls
    /\ calls' = calls + 1
    /\ \E num_sample \in 1..MaxSamples, date_array \in DateArrayChoices(training_meta) :
          LET posteriors == Posterior(num_sample, self)
              done == _get_regression_coefs_matrix(self, training_meta, posteriors, date_array)
          IN  call' = [NoFrame EXCEPT !.op = "_get_regression_coefs_matrix",
                                      !.posterior = posteriors,
                                      !.date_array = date_array,
                                      !.outcome = done.outcome,
                                      !.returned_none = done.none,
                                      !.regressor_betas = done.regressor_betas]
    /\ UNCHANGED <<args, self, df, training_meta, ktrlite, pc, error, multiplier, tp_call>>

\* _filter_coef_prior, lines 772-790, on the list an earlier call filtered:
\* every prior left has start < end, both already at most df.shape[0], and a
\* mean and sd of the expected shape, which np.full copies; none is removed
FilterFilteredCoefPrior(s, table) == s

\* set_dynamic_attributes, lines 792-799, called on the object an earlier call
\* fitted: the attributes it leaves and how it ends
set_dynamic_attributes(s, table, meta, boot) ==
    LET num_of_observations == meta.num_of_observations
        placed == _set_coefficients_kernel_matrix(_set_regressor_matrix(s, table, meta), table, meta)
        trimmed == TrimLevelKnots(_set_knots_scale_matrix(placed, meta), meta, boot)
    IN  IF RegressorColumnsMissing(s, table)
        THEN [self |-> s, outcome |-> "ModelException"]
        ELSE IF PositiveScaleRaises(placed, num_of_observations)
        THEN [self |-> placed, outcome |-> "ValueError"]
        ELSE IF RegularScaleRaises(placed, num_of_observations)
        THEN [self |-> PositiveKnotsScale(placed, num_of_observations), outcome |-> "ValueError"]
        ELSE IF NoLevelKnots(trimmed)
        THEN [self |-> trimmed, outcome |-> "ModelException"]
        ELSE [self |-> FilterFilteredCoefPrior(RecordLevelKernel(trimmed, meta), table),
              outcome |-> "returned"]

\* set_dynamic_attributes once more on the fitted object, with the same table
\* and training metadata; the arrays are followed up to three axes
Call_set_dynamic_attributes ==
    /\ pc = "fitted"
    /\ calls < MaxCalls
    /\ self._positive_regressor_knot_scale_ndim <= 2
    /\ self._regular_regressor_knot_scale_ndim <= 2
    /\ calls' = calls + 1
    /\ LET done == set_dynamic_attributes(self, df, training_meta, ktrlite)
       IN  /\ self' = done.self
           /\ call' = [NoFrame EXCEPT !.op = "set_dynamic_attributes",
                                          !.self_at_entry = {self},
                                          !.outcome = done.outcome]
           /\ pc' = IF done.outcome = "returned" THEN "fitted" ELSE "fit_failed"
           /\ error' = IF done.outcome = "returned" THEN error ELSE done.outcome
    /\ UNCHANGED <<args, df, training_meta, ktrlite, multiplier, tp_call>>

-----------------------------------------------------------------------------
(* Specification *)

NoCall == [knots_distance |-> 0, cutoff |-> 0, returned |-> FALSE, knots_idx |-> <<>>]

Worlds ==
    WorldsStatic \cup WorldsKnots \cup WorldsScale \cup WorldsPrior \cup WorldsLevel
        \cup WorldsSeasonal \cup WorldsIntScale \cup WorldsLength \cup WorldsThreeKnots
        \cup WorldsPriorOrder

Init ==
    \E w \in Worlds :
        /\ args = w.args
        /\ self = Constructed(w.args).self
        /\ df = w.df
        /\ training_meta = MetaOf(w.df.nrows)
        /\ ktrlite = w.ktrlite
        /\ pc = Constructed(w.args).pc
        /\ error = Constructed(w.args).error
        /\ multiplier = [positive |-> <<>>, regular |-> <<>>]
        /\ tp_call = NoCall
        /\ call = NoFrame
        /\ calls = 0

\* set_dynamic_attributes, lines 794-799
NextFit ==
    \/ Step_set_valid_response_attributes
    \/ Step_set_regressor_matrix
    \/ Step_set_coefficients_kernel_matrix
    \/ Step_set_knots_scale_matrix
    \/ Step_set_levs_and_seas
    \/ Step_filter_coef_prior

Next ==
    \/ NextFit
    \/ Call_predict
    \/ Call_get_regression_coefs_matrix

\* construction, fit, and calls on the fitted object
Spec == Init /\ [][Next]_vars

\* construction and fit only
SpecFit == Init /\ [][NextFit]_vars

NextRefit ==
    \/ NextFit
    \/ Call_set_dynamic_attributes

\* construction, fit, and set_dynamic_attributes called again
SpecRefit == Init /\ [][NextRefit]_vars

\* tables of 4 and 5 rows, the attributes the base class owns being set: two
\* level knots with and without regressors, one level knot without
WorldsPredict ==
    { w \in WorldsLevel :
        /\ w.args.regressor_col \in {<<>>, <<"x1", "x2">>}
        /\ <<w.args.base_seasonal_knots_input, w.args.base_rho_coefficients>>
               = <<"None", {150}>>
        /\ \E n \in {4, 5} :
              /\ w.df.nrows = n
              /\ \/ w.ktrlite = Bootstrap(<<0, 2>>)
                 \/ w.ktrlite = Bootstrap(<<n - 1>>) /\ w.args.regressor_col = <<>> }

InitPredict ==
    \E w \in WorldsPredict :
        /\ args = w.args
        /\ self = Constructed(w.args).self
        /\ df = w.df
        /\ training_meta = MetaOf(w.df.nrows)
        /\ ktrlite = w.ktrlite
        /\ pc = Constructed(w.args).pc
        /\ error = Constructed(w.args).error
        /\ multiplier = [positive |-> <<>>, regular |-> <<>>]
        /\ tp_call = NoCall
        /\ call = NoFrame
        /\ calls = 0

\* construction, fit, and calls on the fitted object, for small tables
SpecPredict == InitPredict /\ [][Next]_vars

-----------------------------------------------------------------------------
(* _set_knots_tp called on its own *)

Call_set_knots_tp ==
    /\ pc = "static_call"
    /\ ~tp_call.returned
    /\ tp_call' = [tp_call EXCEPT
                      !.returned = TRUE,
                      !.knots_idx = _set_knots_tp(tp_call.knots_distance, tp_call.cutoff)]
    /\ UNCHANGED <<args, self, df, training_meta, ktrlite, pc, error, multiplier, call, calls>>

InitKnotsTp ==
    /\ args = DefaultArgs
    /\ self = Construct(DefaultArgs)
    /\ df = Table(4, <<>>, <<>>)
    /\ training_meta = MetaOf(4)
    /\ ktrlite = Bootstrap(<<0, 3>>)
    /\ pc = "static_call"
    /\ error = ""
    /\ multiplier = [positive |-> <<>>, regular |-> <<>>]
    /\ call = NoFrame
    /\ calls = 0
    /\ \E d \in 1..MaxDistance, c \in 0..MaxCutoff :
          tp_call = [knots_distance |-> d, cutoff |-> c, returned |-> FALSE, knots_idx |-> <<>>]

NextKnotsTp == Call_set_knots_tp

SpecKnotsTp == InitKnotsTp /\ [][NextKnotsTp]_vars

-----------------------------------------------------------------------------
(* Where the caller is *)

\* set_dynamic_attributes has returned
Fitted == pc = "fitted"

\* _set_coefficients_kernel_matrix has run in a fit that has not failed
AfterKernelMatrix == pc \in {"_set_knots_scale_matrix", "_set_levs_and_seas", "_filter_coef_prior", "fitted"}

\* _set_knots_scale_matrix has run in a fit that has not failed
AfterKnotsScale == pc \in {"_set_levs_and_seas", "_filter_coef_prior", "fitted"}

-----------------------------------------------------------------------------
(* Claims *)

\* the sign declared for column c ('=' when no sign list is declared)
DeclaredSign(c) ==
    IF args.regressor_sign = <<>> THEN "="
    ELSE args.regressor_sign[IndexOf(args.regressor_col, c) + 1]

\* C1: in a constructed model the concatenated regressor order is every
\* unconstrained regressor, then every positive regressor, each group in the
\* order of the declaration.
C1_UnconstrainedFirstInDeclaredOrder ==
    pc # "construct_failed" =>
        LET declared == args.regressor_col
            out == self._regressor_col
        IN  /\ Len(out) = Len(declared)
            /\ Range(out) = Range(declared)
            /\ \A i, j \in DOMAIN out :
                  i < j =>
                    /\ ~(DeclaredSign(out[i]) = "+" /\ DeclaredSign(out[j]) # "+")
                    /\ ((DeclaredSign(out[i]) = "+") = (DeclaredSign(out[j]) = "+")
                          => IndexOf(declared, out[i]) < IndexOf(declared, out[j]))

\* C1 witness: a positive column declared before an unconstrained one ends after it
C1_Witness ==
    /\ args.regressor_col = <<"x1", "x2">>
    /\ args.regressor_sign = <<"+", "=">>
    /\ self._regressor_col = <<"x2", "x1">>

\* the indices first, first + d, ... below cutoff
RECURSIVE KnotsFrom(_, _, _)
KnotsFrom(first, d, cutoff) ==
    IF first >= cutoff THEN <<>> ELSE <<first>> \o KnotsFrom(first + d, d, cutoff)

\* the integer nearest to d / 2, the even one of the two when d is odd
HalfRounded(d) ==
    IF d % 2 = 0 THEN d \div 2
    ELSE IF ((d - 1) \div 2) % 2 = 0 THEN (d - 1) \div 2 ELSE (d + 1) \div 2

\* C2 (as claimed): with regressors, a declared segment count n, no knot
\* distance and no knot dates, the knots are placed with spacing ceil(N/(n+1));
\* for N = 100 and n = 5 they are 8, 25, 42, 59, 76, 93.
C2_SpacingFromDeclaredSegments ==
    (/\ AfterKernelMatrix
     /\ args.regressor_col # <<>>
     /\ args.regression_knot_distance = 0
     /\ args.regression_knot_dates = {})
    => LET n == training_meta.num_of_observations
           spacing == CeilDiv(n, args.regression_segments + 1)
       IN  /\ self._regression_knots_idx = KnotsFrom(HalfRounded(spacing), spacing, n)
           /\ (n = 100 /\ args.regression_segments = 5
                 => self._regression_knots_idx = <<8, 25, 42, 59, 76, 93>>)

\* C3: _set_knots_tp(d, c) returns round(d/2), round(d/2) + d, ... below c, in
\* increasing order, and nothing else.
C3_KnotsEveryDistanceBelowCutoff ==
    tp_call.returned =>
        LET d == tp_call.knots_distance
            c == tp_call.cutoff
            r == tp_call.knots_idx
        IN  /\ \A i \in DOMAIN r : r[i] = HalfRounded(d) + (i - 1) * d /\ r[i] < c
            /\ HalfRounded(d) + Len(r) * d >= c

\* C3 witness: distance 5 and cutoff 14 give 2, 7, 12
C3_Witness ==
    /\ tp_call.returned
    /\ tp_call.knots_distance = 5
    /\ tp_call.cutoff = 14
    /\ tp_call.knots_idx = <<2, 7, 12>>

\* C4 (as claimed): after _filter_coef_prior (with regressors declared, so that
\* the filter runs) every prior left in the active list has
\* 0 <= prior_start_tp_idx < prior_end_tp_idx <= num_of_observations.
C4_ActiveWindowsInsideTable ==
    Fitted /\ args.regressor_col # <<>> =>
        \A k \in DOMAIN self._coef_prior_list :
            LET x == self._coef_prior_list[k]
            IN  /\ 0 <= x.prior_start_tp_idx
                /\ x.prior_start_tp_idx < x.prior_end_tp_idx
                /\ x.prior_end_tp_idx <= training_meta.num_of_observations

\* the window [start, end) clamped into [0, n] is empty
EmptyAfterClamping(x, n) ==
    Max(0, Min(x.prior_start_tp_idx, n)) >= Max(0, Min(x.prior_end_tp_idx, n))

\* C5 (as claimed): after _filter_coef_prior (with regressors declared, so that
\* the filter runs) the active list is the declared list without the priors
\* whose window is empty after clamping into [0, N], in the declared order; a
\* prior with start 5 and end 3 on 10 rows is not in it.
C5_ExactlyEmptyWindowsDropped ==
    Fitted /\ args.regressor_col # <<>> =>
        LET n == training_meta.num_of_observations
            expected == SelectSeq(args.coef_prior_list, LAMBDA x : ~EmptyAfterClamping(x, n))
            active == self._coef_prior_list
        IN  /\ Len(active) = Len(expected)
            /\ \A k \in DOMAIN active :
                  k \in DOMAIN expected => active[k].name = expected[k].name
            /\ (n = 10 /\ args.coef_prior_list = <<Prior("p", 5, 3)>> => active = <<>>)

\* the rows (Python indices) of the segment that starts at knot idx
SegmentRows(knots_idx, idx, n) ==
    {i \in 0..(n - 1) :
        /\ knots_idx[idx] <= i
        /\ i < (IF idx < Len(knots_idx) THEN knots_idx[idx + 1] ELSE n)}

\* the sum of the absolute values of column col of the training table over rows
AbsSum(col, rows) ==
    SumSeq([i \in 1..df.nrows |-> IF (i - 1) \in rows THEN Abs(df.values[col][i]) ELSE 0])

\* the mean absolute value of col over the segment is below 1% of its mean
\* absolute value over the table
LowLocalVolume(col, knots_idx, idx) ==
    LET n == df.nrows
        rows == SegmentRows(knots_idx, idx, n)
    IN  100 * AbsSum(col, rows) * n < AbsSum(col, 0..(n - 1)) * Cardinality(rows)

\* C6: for a positive regressor, without flat_multiplier a segment whose local
\* mean absolute value is below 1% of the global mean absolute value has
\* multiplier 0.01 and any other segment 1.0; with flat_multiplier every
\* segment has multiplier 1.0.
C6_PositiveMultiplierByLocalVolume ==
    AfterKnotsScale =>
        LET knots_idx == self._regression_knots_idx
            positive == SelectSeq(args.regressor_col, LAMBDA c : DeclaredSign(c) = "+")
        IN  /\ Len(multiplier.positive) = Len(positive)
            /\ \A r \in DOMAIN positive :
                  /\ Len(multiplier.positive[r]) = Len(knots_idx)
                  /\ \A idx \in DOMAIN knots_idx :
                        SegmentRows(knots_idx, idx, df.nrows) # {} =>
                            multiplier.positive[r][idx] =
                                IF args.flat_multiplier THEN 100
                                ELSE IF LowLocalVolume(positive[r], knots_idx, idx) THEN 1
                                ELSE 100

\* C6 witness: without flat_multiplier a positive regressor has a segment with
\* multiplier 0.01 and a segment with multiplier 1.0
C6_Witness ==
    /\ AfterKnotsScale
    /\ ~args.flat_multiplier
    /\ \E r \in DOMAIN multiplier.positive :
          \E idx, other \in DOMAIN multiplier.positive[r] :
              /\ multiplier.positive[r][idx] = 1
              /\ multiplier.positive[r][other] = 100
              /\ LowLocalVolume(self._positive_regressor_col[r], self._regression_knots_idx, idx)

\* the knot scale configured for column c
ConfiguredKnotScale(c) ==
    IF args.regressor_knot_scale = <<>> THEN DEFAULT_COEFFICIENTS_KNOT_SCALE
    ELSE args.regressor_knot_scale[IndexOf(args.regressor_col, c) + 1]

\* C7 (as claimed): with flat_multiplier every multiplier of both groups is 1
\* and every per-knot scale is the regressor's configured knot scale, floored
\* at 1e-4.
C7_FlatMultiplierLeavesScales ==
    AfterKnotsScale /\ args.flat_multiplier =>
        /\ \A r \in DOMAIN multiplier.positive :
              \A idx \in DOMAIN multiplier.positive[r] :
                  /\ multiplier.positive[r][idx] = 100
                  /\ self._positive_regressor_knot_scale[r][idx] =
                        Max(ScaleFloor, ConfiguredKnotScale(self._positive_regressor_col[r]))
        /\ \A r \in DOMAIN multiplier.regular :
              \A idx \in DOMAIN multiplier.regular[r] :
                  /\ multiplier.regular[r][idx] = 100
                  /\ self._regular_regressor_knot_scale[r][idx] =
                        Max(ScaleFloor, ConfiguredKnotScale(self._regular_regressor_col[r]))

-----------------------------------------------------------------------------
(* C8: level knots of a noise-inclusive prediction *)

\* predict got past the level step of a call with include_error
LevelExtended ==
    /\ call.op = "predict"
    /\ call.include_error
    /\ call.kernel_level # <<>>

\* last fitted level knot position + knot width, the width being the
\* difference of the last two fitted level knot positions
LevelBound ==
    LET n == Len(self.knots_tp_level)
    IN  self.knots_tp_level[n] + (self.knots_tp_level[n] - self.knots_tp_level[n - 1])

\* C8: in predict with include_error=True, when the last forecast position
\* lies beyond (last fitted level knot position + knot width) the level knot
\* set used for the trend has strictly more knots than the fitted set, and
\* when it lies within that bound it has exactly the fitted knot count.
C8_MoreLevelKnotsExactlyBeyondBound ==
    LevelExtended =>
        IF call.new_tp[Len(call.new_tp)] > LevelBound
        THEN Len(call.new_knots_tp_level) > Len(self.knots_tp_level)
        ELSE Len(call.new_knots_tp_level) = Len(self.knots_tp_level)

-----------------------------------------------------------------------------
(* C9: coefficient curves at the training dates *)

\* C9: _get_regression_coefs_matrix at a date array equal to the exact
\* training dates returns the same curves as the in-sample reconstruction
\* (date_array=None), which multiplies the knot values by the stored training
\* kernel, for every knot sample array.
C9_TrainingDatesReproduceInSampleCurves ==
    (/\ call.op = "_get_regression_coefs_matrix"
     /\ call.date_array = {training_meta.date_array}
     /\ self._num_of_regressors > 0)
    => /\ call.outcome = "returned"
       /\ call.regressor_betas =
            _get_regression_coefs_matrix(self, training_meta, call.posterior, {}).regressor_betas

-----------------------------------------------------------------------------
(* C10: a prediction table without a declared regressor column *)

\* the table of the predict call lacks a declared regressor column
PredictColumnMissing ==
    /\ call.op = "predict"
    /\ ~(Range(self._regressor_col) \subseteq call.table.columns)

\* C10: predict given a table that lacks a regressor column declared at
\* configuration time fails with a configuration error (the ModelException
\* that fitting raises for a missing column) and returns no decomposition.
C10_MissingColumnFailsPredict ==
    PredictColumnMissing =>
        /\ call.outcome = "ModelException"
        /\ call.decomp_dict = {}

-----------------------------------------------------------------------------
(* C11: the decomposition predict returns *)

\* a predict call returned
PredictReturned ==
    /\ call.op = "predict"
    /\ call.outcome = "returned"

\* the one decomposition of the call
Decomposition == CHOOSE d \in call.decomp_dict : TRUE

\* C11: every predict call that returns gives a decomposition with the four
\* entries prediction, trend, seasonality_input and regression; without
\* include_error the prediction equals trend + seasonality_input + regression
\* at every (sample, step); and without declared regressors the regression
\* entry is zero everywhere.
C11_DecompositionAddsUp ==
    PredictReturned =>
        /\ Cardinality(call.decomp_dict) = 1
        /\ DOMAIN Decomposition = {"prediction", "trend", "seasonality_input", "regression"}
        /\ LET d == Decomposition
               samples == 1..Len(call.posterior.lev_knot)
               steps == 1..call.prediction_meta.df_length
           IN  /\ \A name \in {"prediction", "trend", "regression"} :
                     /\ DOMAIN d[name] = samples
                     /\ \A smp \in samples : DOMAIN d[name][smp] = steps
               /\ \A row \in DOMAIN d.seasonality_input : DOMAIN d.seasonality_input[row] = steps
               /\ ~call.include_error =>
                     \A smp \in samples, t \in steps :
                         d.prediction[smp][t] =
                             ValAdd(ValAdd(d.trend[smp][t],
                                           d.seasonality_input[IF Len(d.seasonality_input) = 1
                                                               THEN 1 ELSE smp][t]),
                                    d.regression[smp][t])
               /\ self._num_of_regressors = 0 =>
                     \A smp \in samples, t \in steps : d.regression[smp][t] = Zero

\* a returned noiseless forecast of two samples whose regression entry is not zero
C11_Witness ==
    /\ PredictReturned
    /\ ~call.include_error
    /\ Len(call.posterior.lev_knot) = 2
    /\ self._num_of_regressors > 0
    /\ \E t \in 1..call.prediction_meta.df_length : Decomposition.regression[2][t] # Zero

\* a returned forecast of a model without regressors
C11_WitnessNoRegressors ==
    /\ PredictReturned
    /\ self._num_of_regressors = 0
    /\ call.prediction_meta.df_length > 1

-----------------------------------------------------------------------------
(* C12: the regression knot set after planning *)

\* the regression knots have been planned: the model has regressors and
\* _set_coefficients_kernel_matrix has run
RegressionKnotsPlanned == AfterKernelMatrix /\ self._num_of_regressors > 0

\* C12: after planning, in both placement modes (even segmentation with any
\* spacing, explicit dates in any supplied order), the regression knot time
\* positions are strictly increasing, all lie within the training time range
\* (0, 1], and there is at least one knot.
C12_RegressionKnotSetInvariant ==
    RegressionKnotsPlanned =>
        LET tp == self._knots_tp_coefficients
            N == training_meta.num_of_observations
        IN  /\ \A k \in 1..(Len(tp) - 1) : tp[k] < tp[k + 1]
            /\ \A k \in DOMAIN tp : 0 < tp[k] /\ tp[k] <= N
            /\ Len(tp) >= 1

-----------------------------------------------------------------------------
(* C13: a level without knots *)

\* no level knot date of the bootstrap lies within the training dates
NoLevelDateRemains == LevelKnotsKept(ktrlite.level_knot_dates, training_meta) = {}

\* C13: if no level knot date remains after filtering the level knot dates to
\* the training date range, fitting fails with a ModelException and neither a
\* level kernel nor a level knot count is recorded; whenever fitting gets past
\* that step the level has at least one knot.
C13_LevelNeedsAKnot ==
    /\ (pc \in {"_filter_coef_prior", "fitted", "fit_failed"} /\ NoLevelDateRemains) =>
          /\ pc = "fit_failed"
          /\ error = "ModelException"
          /\ self._kernel_level = <<>>
          /\ self._num_knots_level = 0
          /\ self.knots_tp_level = <<>>
    /\ pc \in {"_filter_coef_prior", "fitted"} =>
          /\ self._num_knots_level >= 1
          /\ Len(self.knots_tp_level) = self._num_knots_level
          /\ Len(self._level_knots) = self._num_knots_level
          /\ \A i \in DOMAIN self._kernel_level : Len(self._kernel_level[i]) = self._num_knots_level

\* the bootstrap placed level knots, all outside the training dates, and
\* fitting failed at _set_levs_and_seas
C13_Witness ==
    /\ pc = "fit_failed"
    /\ NoLevelDateRemains
    /\ Len(ktrlite.level_knot_dates) > 1
    /\ self.level_knot_dates = ktrlite.level_knot_dates
    /\ self._level_knots = <<>>

-----------------------------------------------------------------------------
(* C14: fewer observations than the largest declared seasonal period *)

\* the largest seasonal period declared at construction, 0 when none is
MaxDeclaredSeasonality ==
    IF args.seasonality = <<>> THEN 0
    ELSE CHOOSE p \in Range(args.seasonality) : \A q \in Range(args.seasonality) : q <= p

\* a seasonal period is declared that the table is shorter than
TooFewObservations == training_meta.num_of_observations < MaxDeclaredSeasonality

\* C14: if the number of observations is smaller than the largest seasonal
\* period declared in the configuration, set_dynamic_attributes fails with a
\* ModelException before any derived state is computed: the object is left as
\* the constructor made it.
C14_TooFewObservationsFailFit ==
    (TooFewObservations /\ pc # "constructed") =>
        /\ pc = "fit_failed"
        /\ error = "ModelException"
        /\ self = Construct(args)

-----------------------------------------------------------------------------
(* C15: the lower bound of the scale parameters *)

\* every entry of a matrix of scales is at least 1e-4
MatrixAtLeastFloor(m) == \A r \in DOMAIN m : \A idx \in DOMAIN m[r] : m[r][idx] >= ScaleFloor

\* every entry of an array of scales is at least 1e-4
ArrayAtLeastFloor(a) == \A r \in DOMAIN a : a[r] >= ScaleFloor

\* C15: after _set_knots_scale_matrix every per-knot scale, of the positive
\* and of the unconstrained regressors, and every initial-pooling scale is at
\* least 1e-4.
C15_ScalesAtLeastFloor ==
    AfterKnotsScale =>
        /\ MatrixAtLeastFloor(self._positive_regressor_knot_scale)
        /\ MatrixAtLeastFloor(self._regular_regressor_knot_scale)
        /\ ArrayAtLeastFloor(self._positive_regressor_init_knot_scale)
        /\ ArrayAtLeastFloor(self._regular_regressor_init_knot_scale)

\* the same for the scales given as floats, or left to their defaults
C15_FloatScalesAtLeastFloor ==
    self.regressor_init_knot_scale_dtype = "float64" => C15_ScalesAtLeastFloor

-----------------------------------------------------------------------------
(* C16: the time positions of a prediction *)

\* the training indices (from 0) whose date is the first date of the prediction
MatchingIndices ==
    {idx \in 0..(training_meta.num_of_observations - 1) :
        training_meta.date_array[idx + 1] = call.prediction_meta.prediction_start}

\* C16: the time positions of a prediction of length L are (start+1)/N, ...,
\* (start+L)/N (kept here as the numerators start+1 .. start+L), where N is the
\* number of training observations, start = N when the forecast start date is
\* after the training end and otherwise start is the index of the training
\* date equal to the forecast start date; the positions of training dates are
\* (index+1)/N and lie in (0, 1]; _generate_tp gives the same positions; and
\* without a matching training date there are no positions.
C16_PredictionTimePositions ==
    call.op = "predict" =>
        LET N == training_meta.num_of_observations
            L == call.prediction_meta.df_length
            prediction_start == call.prediction_meta.prediction_start
        IN  IF prediction_start > training_meta.training_end
            THEN /\ call.start = N
                 /\ call.new_tp = [i \in 1..L |-> N + i]
                 /\ _generate_tp(training_meta, call.prediction_meta.date_array) = call.new_tp
            ELSE IF MatchingIndices # {}
            THEN /\ call.start \in MatchingIndices
                 /\ call.new_tp = [i \in 1..L |-> call.start + i]
                 /\ \A i \in 1..L :
                       call.start + i - 1 < N =>
                          /\ training_meta.date_array[call.start + i] = call.prediction_meta.date_array[i]
                          /\ 0 < call.new_tp[i] /\ call.new_tp[i] <= N
                 /\ _generate_tp(training_meta, call.prediction_meta.date_array) = call.new_tp
            ELSE /\ call.outcome = "KeyError"
                 /\ call.new_tp = <<>>

\* a returned prediction that starts at the last training date and goes on
\* beyond it
C16_Witness ==
    /\ PredictReturned
    /\ call.prediction_meta.prediction_start = training_meta.training_end
    /\ call.prediction_meta.df_length > 1
    /\ call.start = training_meta.num_of_observations - 1

\* a returned prediction that starts two days after the last training date
C16_WitnessAfterTrainingEnd ==
    /\ PredictReturned
    /\ call.prediction_meta.prediction_start = training_meta.training_end + 2
    /\ call.start = training_meta.num_of_observations

-----------------------------------------------------------------------------
(* C17: what predict leaves alone *)

\* the fitted configuration state: level knot positions, level kernel,
\* regression knot positions and indices, regression kernel, knot-scale
\* arrays, regressor order
FittedConfiguration(s) ==
    <<s.knots_tp_level, s._kernel_level, s._level_knot_dates, s._num_knots_level,
      s._knots_tp_coefficients, s._regression_knots_idx, s._regression_knot_dates,
      s._kernel_coefficients, s.regression_segments,
      s._positive_regressor_knot_scale, s._regular_regressor_knot_scale,
      s._positive_regressor_init_knot_scale, s._regular_regressor_init_knot_scale,
      s._regressor_col, s._positive_regressor_col, s._regular_regressor_col>>

\* a step is a predict call
PredictCalled == calls' = calls + 1 /\ call'.op = "predict"

\* C17: a predict call, whatever its input, its include_error setting and its
\* outcome, leaves the fitted configuration state as it was (level knot
\* positions, level kernel, regression knot positions and indices, regression
\* kernel, knot-scale arrays, regressor order); of the whole object only
\* pred_array is assigned.
C17_PredictLeavesFittedState ==
    [][PredictCalled =>
          /\ FittedConfiguration(self') = FittedConfiguration(self)
          /\ [self' EXCEPT !.pred_array = <<>>] = [self EXCEPT !.pred_array = <<>>]
          /\ pc' = pc]_vars

\* a returned predict call with include_error that extended the level knot
\* positions for its own use and stored its prediction
C17_Witness ==
    /\ PredictReturned
    /\ call.include_error
    /\ call.store_prediction_array
    /\ Len(call.new_knots_tp_level) > Len(self.knots_tp_level)
    /\ self.pred_array # <<>>
    /\ self.knots_tp_level # <<>>

-----------------------------------------------------------------------------
(* C18: the lengths of the per-regressor lists *)

\* the four per-regressor lists as supplied (<<>> when not supplied) and as
\* the constructed object holds them, with the default entry of each
RegressorLists ==
    << <<args.regressor_sign, self._regressor_sign, DEFAULT_REGRESSOR_SIGN>>,
       <<args.regressor_init_knot_loc, self._regressor_init_knot_loc, DEFAULT_COEFFICIENTS_INIT_KNOT_LOC>>,
       <<args.regressor_init_knot_scale, self._regressor_init_knot_scale, DEFAULT_COEFFICIENTS_INIT_KNOT_SCALE>>,
       <<args.regressor_knot_scale, self._regressor_knot_scale, DEFAULT_COEFFICIENTS_KNOT_SCALE>> >>

\* a list is supplied whose length is not the number of regressor columns
ListLengthMismatch ==
    \E k \in DOMAIN RegressorLists :
        /\ RegressorLists[k][1] # <<>>
        /\ Len(RegressorLists[k][1]) # Len(args.regressor_col)

\* construction failed with IllegalArgument
ConstructionRejected == pc = "construct_failed" /\ error = "IllegalArgument"

\* lists not supplied hold one default entry per regressor ('=', 0, 1.0, 0.1),
\* supplied ones are kept
ListsDefaulted ==
    \A k \in DOMAIN RegressorLists :
        RegressorLists[k][2] =
            IF RegressorLists[k][1] = <<>>
            THEN [i \in 1..Len(args.regressor_col) |-> RegressorLists[k][3]]
            ELSE RegressorLists[k][1]

\* C18 as stated: constructing a model with a supplied regressor_sign,
\* regressor_init_knot_loc, regressor_init_knot_scale or regressor_knot_scale
\* list whose length differs from the number of regressor columns fails with
\* IllegalArgument; otherwise the lists not supplied default to one entry per
\* regressor.
C18_MismatchedListsRejected ==
    /\ ListLengthMismatch => ConstructionRejected
    /\ (~ListLengthMismatch /\ args.coef_prior_list = <<>>) => (pc # "construct_failed" /\ ListsDefaulted)

\* C18 amended: the lengths are checked only when regressor columns are
\* declared. With columns declared a supplied list of another length makes the
\* constructor fail with IllegalArgument, and nothing else does when no prior
\* is given; with no columns declared the constructor never fails on the
\* lists and holds four empty lists, whatever was supplied. Of a constructed
\* model with columns, the lists not supplied hold one default entry per
\* regressor ('=', 0, 1.0, 0.1).
C18_MismatchedListsRejectedWithColumns ==
    /\ (args.regressor_col # <<>> /\ ListLengthMismatch) => ConstructionRejected
    /\ (args.regressor_col # <<>> /\ ~ListLengthMismatch /\ args.coef_prior_list = <<>>) =>
          pc # "construct_failed"
    /\ (args.regressor_col # <<>> /\ pc # "construct_failed") => ListsDefaulted
    /\ args.regressor_col = <<>> =>
          /\ pc # "construct_failed"
          /\ \A k \in DOMAIN RegressorLists : RegressorLists[k][2] = <<>>

\* a model of two columns given one knot scale is rejected
C18_Witness ==
    /\ ConstructionRejected
    /\ Len(args.regressor_col) = 2
    /\ Len(args.regressor_knot_scale) = 1
    /\ args.regressor_sign = <<>>

\* a model without columns given a list of signs is constructed
C18_WitnessNoColumns ==
    /\ args.regressor_col = <<>>
    /\ args.regressor_sign # <<>>
    /\ pc = "constructed"

-----------------------------------------------------------------------------
(* C19: coefficient curves asked for dates before the training start *)

\* _get_regression_coefs_matrix was called with a date array whose first date
\* is earlier than the training start
EarlyDateArray ==
    /\ call.op = "_get_regression_coefs_matrix"
    /\ call.date_array # {}
    /\ (CHOOSE d \in call.date_array : TRUE)[1] < training_meta.training_start

\* the date array of the call is ordered and without repeats
OrderedDateArray == is_ordered_datetime(CHOOSE d \in call.date_array : TRUE)

\* the call gave no coefficient matrix
NoMatrix == call.regressor_betas = <<>>

\* C19 as stated: _get_regression_coefs_matrix for an explicit date array
\* whose first date is earlier than the training start fails with a
\* ModelException and returns no coefficient matrix.
C19_EarlyDateArrayFails ==
    EarlyDateArray => (call.outcome = "ModelException" /\ NoMatrix)

\* C19 amended: for a model with regressors and an ordered date array whose
\* first date is earlier than the training start the call fails with a
\* ModelException; an unordered such array fails with IllegalArgument; a
\* model without regressors returns None without looking at the dates; no
\* coefficient matrix is returned in any of the three cases.
C19_EarlyDateArrayFailsWithRegressors ==
    EarlyDateArray =>
        /\ NoMatrix
        /\ IF self._num_of_regressors = 0
           THEN call.outcome = "returned" /\ call.returned_none
           ELSE IF OrderedDateArray
           THEN call.outcome = "ModelException" /\ ~call.returned_none
           ELSE call.outcome = "IllegalArgument" /\ ~call.returned_none

\* a model with regressors asked for the day before the training start and
\* the first training day
C19_Witness ==
    /\ EarlyDateArray
    /\ OrderedDateArray
    /\ self._num_of_regressors > 0
    /\ call.outcome = "ModelException"

\* a model without regressors asked for the same dates
C19_WitnessNoRegressors ==
    /\ EarlyDateArray
    /\ self._num_of_regressors = 0
    /\ call.returned_none

-----------------------------------------------------------------------------
(* C20: the rows of the level kernel *)

\* the sum of a row of fractions
RECURSIVE RowSum(_)
RowSum(row) == IF row = <<>> THEN <<0, 1>> ELSE RatAdd(Head(row), RowSum(Tail(row)))

\* a row of non-negative weights that sum to 1
RowIsAverage(row) ==
    /\ \A j \in DOMAIN row : row[j][1] >= 0 /\ row[j][2] > 0
    /\ RowSum(row) = <<1, 1>>

\* every row of a kernel has one weight per knot, non-negative, summing to 1
KernelRowsAverage(kernel, knots) ==
    \A i \in DOMAIN kernel : Len(kernel[i]) = Len(knots) /\ RowIsAverage(kernel[i])

\* a predict call built its level kernel
LevelKernelBuilt == call.op = "predict" /\ call.kernel_level # <<>>

\* C20: each row of the sandwich kernel used for the level curve has
\* non-negative weights that sum to 1: the kernel of the training time
\* positions that fitting records, and the kernel every predict call builds
\* for its time positions (inside the training range or beyond it) from the
\* fitted level knots or from the knot set it extended.
C20_LevelKernelRowsAverage ==
    /\ pc \in {"_filter_coef_prior", "fitted"} =>
          /\ Len(self._kernel_level) = training_meta.num_of_observations
          /\ KernelRowsAverage(self._kernel_level, self.knots_tp_level)
    /\ LevelKernelBuilt =>
          /\ Len(call.kernel_level) = call.prediction_meta.df_length
          /\ KernelRowsAverage(call.kernel_level, call.new_knots_tp_level)

\* a predict call that extended the level knots, with a time position
\* between two knots and one at or beyond the last knot
C20_Witness ==
    /\ LevelKernelBuilt
    /\ Len(call.new_knots_tp_level) > Len(self.knots_tp_level)
    /\ \E i \in DOMAIN call.kernel_level :
          \E j \in DOMAIN call.kernel_level[i] :
              call.kernel_level[i][j] \notin {<<0, 1>>, <<1, 1>>}
    /\ \E i \in DOMAIN call.new_tp :
          call.new_tp[i] >= call.new_knots_tp_level[Len(call.new_knots_tp_level)]

-----------------------------------------------------------------------------
(* C21: the seasonality of a model that declares seasonal periods *)

\* seasonal periods are declared and _set_levs_and_seas has returned
SeasonalityDeclaredAndFitted ==
    /\ args.seasonality # <<>>
    /\ pc \in {"_filter_coef_prior", "fitted"}

\* C21: when seasonality is declared, fitting records the bootstrap's seasonal
\* knot values and dates (_seasonal_knots_input is the dictionary of lines
\* 760-763), and every predict that gets as far as the seasonality step
\* reconstructs its seasonality from them instead of taking the all-zero
\* default.
C21_DeclaredSeasonalityIsRecorded ==
    SeasonalityDeclaredAndFitted =>
        /\ self._seasonal_knots_input = "dict"
        /\ (call.op = "predict" /\ call.seas # <<>>) =>
              /\ call.outcome # "AttributeError"
              /\ call.seas = <<[t \in 1..call.prediction_meta.df_length |-> SeasonalTerm(t)]>>
              /\ call.seas # Zeros(1, call.prediction_meta.df_length)

\* the same claim about predict alone: a returned predict of a model that
\* declares seasonal periods has a seasonality that is not the zero default
C21_PredictUsesRecordedSeasonality ==
    (PredictReturned /\ args.seasonality # <<>>) =>
        Decomposition.seasonality_input # Zeros(1, call.prediction_meta.df_length)

-----------------------------------------------------------------------------
(* C22: the values of the level knots predict synthesizes *)

\* predict with include_error returned and put new level knots after the
\* fitted ones
NewLevelKnots ==
    /\ PredictReturned
    /\ call.include_error
    /\ Len(call.new_knots_tp_level) > Len(self.knots_tp_level)

\* the knot values of sample smp handed to predict
FittedLevelKnots(smp) == call.posterior.lev_knot[smp]

\* C22: when predict synthesizes new level knots, for each sample on its own
\* the fitted knot values stay unchanged in front, the first new knot value is
\* the last fitted one plus the first increment, and each further new knot
\* value is the previous new one plus the next increment.
C22_NewLevelKnotsAccumulate ==
    NewLevelKnots =>
        \A smp \in DOMAIN call.lev_knot :
            LET fitted == Len(FittedLevelKnots(smp))
            IN  /\ Len(call.lev_knot[smp]) = Len(call.new_knots_tp_level)
                /\ SubSeq(call.lev_knot[smp], 1, fitted) = FittedLevelKnots(smp)
                /\ \A j \in (fitted + 1)..Len(call.lev_knot[smp]) :
                      call.lev_knot[smp][j] =
                          call.lev_knot[smp][j - 1] + Laplace(call.seed, smp, j - fitted)

\* two samples with at least three new knots each, the increments of the two
\* samples differing
C22_Witness ==
    /\ NewLevelKnots
    /\ Len(call.lev_knot) = 2
    /\ Len(call.new_knots_tp_level) >= Len(self.knots_tp_level) + 3
    /\ Laplace(call.seed, 1, 2) # Laplace(call.seed, 2, 2)
    /\ Laplace(call.seed, 1, 2) # 0

-----------------------------------------------------------------------------
(* C23: set_dynamic_attributes called a second time *)

\* set_dynamic_attributes was called on the fitted object
SecondCall == call.op = "set_dynamic_attributes"

\* the object after the first call
AfterFirstCall == CHOOSE s \in call.self_at_entry : TRUE

\* where the regression knots of s are
RegressionKnotPlacement(s) ==
    <<s._regression_knot_dates, s._regression_knots_idx, s._knots_tp_coefficients,
      s.regression_segments>>

\* the number of axes of the two per-knot scale arrays of s
KnotScaleNdim(s) ==
    <<s._positive_regressor_knot_scale_ndim, s._regular_regressor_knot_scale_ndim>>

\* the two per-knot scale arrays of s
KnotScaleValues(s) ==
    <<s._positive_regressor_knot_scale, s._regular_regressor_knot_scale>>

\* the second call places the knots the way the first did: evenly when no
\* dates were given, from the given dates otherwise
SamePlacementMode ==
    AfterFirstCall._num_of_regressors > 0 =>
        ((AfterFirstCall._regression_knot_dates = {}) <=> (args.regression_knot_dates = {}))

\* C23: a second set_dynamic_attributes on the same model with the same table
\* and training metadata returns and leaves the knot-placement mode, the
\* regression knot indices and time positions, and the per-knot scale arrays
\* (shape and values) as they were after the first call.
C23_SecondCallKeepsDerivedState ==
    SecondCall =>
        /\ call.outcome = "returned"
        /\ SamePlacementMode
        /\ RegressionKnotPlacement(self) = RegressionKnotPlacement(AfterFirstCall)
        /\ KnotScaleNdim(self) = KnotScaleNdim(AfterFirstCall)
        /\ KnotScaleValues(self) = KnotScaleValues(AfterFirstCall)

\* the part of the claim that does hold: the knot dates, indices and time
\* positions after the second call are those after the first
C23_SecondCallKeepsKnotPlacement ==
    SecondCall =>
        RegressionKnotPlacement(self) = RegressionKnotPlacement(AfterFirstCall)

\* the shape alone: a second call that returns has added an axis to the scale
\* array of every group of regressors
C23_SecondCallKeepsScaleShape ==
    (SecondCall /\ call.outcome = "returned") =>
        KnotScaleNdim(self) = KnotScaleNdim(AfterFirstCall)

-----------------------------------------------------------------------------
(* C24: predict with include_error and the number of level knots *)

\* predict was called with include_error on a fitted model with n level knots
\* or more, for a prediction start predict can place (line 865 passed)
PredictWithErrorCalled(n) ==
    /\ call.op = "predict"
    /\ call.include_error
    /\ call.outcome # "KeyError"
    /\ Len(self.knots_tp_level) >= n

\* C24: predict with include_error completes the level step and goes on to a
\* decomposition for every fitted model with at least one level knot, a model
\* with exactly one level knot included: it does not fail on the level knots.
C24_PredictWithErrorCompletes ==
    PredictWithErrorCalled(1) =>
        /\ call.outcome # "IndexError"
        /\ call.kernel_level # <<>>

\* what holds instead: with two level knots or more the level step completes
C24_PredictWithErrorCompletesWithTwoKnots ==
    PredictWithErrorCalled(2) =>
        /\ call.outcome # "IndexError"
        /\ call.kernel_level # <<>>

-----------------------------------------------------------------------------
(* C25: level knot values and level knot positions in predict with include_error *)

\* predict with include_error got past the level step (lines 868-886)
LevelStepWithErrorDone ==
    /\ call.op = "predict"
    /\ call.include_error
    /\ call.kernel_level # <<>>

\* the last forecast position is exactly one knot width after the last fitted
\* level knot
AtExtensionBoundary ==
    LET n == Len(self.knots_tp_level)
    IN  call.new_tp[Len(call.new_tp)] =
            self.knots_tp_level[n] + (self.knots_tp_level[n] - self.knots_tp_level[n - 1])

\* C25: in predict with include_error every sample has as many level knot
\* values as there are level knot positions handed to the level kernel (one
\* kernel column per position), whether or not the knots were extended, and
\* also when the last forecast position is exactly one knot width after the
\* last fitted knot.
C25_LevelKnotValuesMatchPositions ==
    LevelStepWithErrorDone =>
        /\ \A smp \in DOMAIN call.lev_knot :
              Len(call.lev_knot[smp]) = Len(call.new_knots_tp_level)
        /\ \A t \in DOMAIN call.kernel_level :
              Len(call.kernel_level[t]) = Len(call.new_knots_tp_level)
        /\ call.outcome = "returned" =>
              \A smp \in DOMAIN call.lev_knot :
                  Len(Decomposition.trend[smp]) = Len(call.new_tp)

\* the boundary: the extension branch is taken and np.arange generates no position
C25_Witness ==
    /\ LevelStepWithErrorDone
    /\ call.outcome = "returned"
    /\ AtExtensionBoundary
    /\ call.new_knots_tp_level = self.knots_tp_level
    /\ call.lev_knot = call.posterior.lev_knot

\* the extension branch with new knots, and the branch without extension
C25_WitnessBothBranches ==
    \/ /\ LevelStepWithErrorDone
       /\ Len(call.new_knots_tp_level) > Len(self.knots_tp_level) + 1
    \/ /\ LevelStepWithErrorDone
       /\ ~AtExtensionBoundary
       /\ call.new_knots_tp_level = self.knots_tp_level

-----------------------------------------------------------------------------
(* C26: the column indices attached to the coefficient priors *)

\* the constructor attached indices to the priors (lines 424-426)
PriorIndicesAttached ==
    /\ pc # "construct_failed"
    /\ self._coef_prior_list # <<>>
    /\ Len(self._regressor_col) > 0

\* C26: the indices attached to a coefficient prior are positions in the
\* concatenated list _regressor_col (unconstrained regressors first), not in
\* the declared list: for every prior and every target column c with attached
\* index j, column j of _regressor_col is c.
C26_PriorIndicesInConcatenatedOrder ==
    PriorIndicesAttached =>
        \A k \in DOMAIN self._coef_prior_list :
            LET x == self._coef_prior_list[k]
            IN  /\ Len(x.prior_regressor_col_idx) = Len(x.prior_regressor_col)
                /\ \A c \in DOMAIN x.prior_regressor_col :
                      /\ x.prior_regressor_col_idx[c] \in 0..(Len(self._regressor_col) - 1)
                      /\ self._regressor_col[x.prior_regressor_col_idx[c] + 1] = x.prior_regressor_col[c]

\* a fitted model whose concatenated order differs from the declared order,
\* with a prior on both columns
C26_Witness ==
    /\ PriorIndicesAttached
    /\ pc = "fitted"
    /\ self._regressor_col # self.regressor_col
    /\ \E k \in DOMAIN self._coef_prior_list :
          /\ Len(self._coef_prior_list[k].prior_regressor_col) = 2
          /\ self._coef_prior_list[k].prior_regressor_col_idx = <<1, 0>>

-----------------------------------------------------------------------------
(* C27: the two groups of regressors and their priors *)

\* the entry of a per-regressor argument for column c: the one supplied at
\* the column's declared position, or the default when the list is not given
DeclaredFor(list, default, c) ==
    IF list = <<>> THEN default ELSE list[IndexOf(args.regressor_col, c) + 1]

\* how many times c occurs in the list cols
Occurrences(cols, c) == Cardinality({i \in DOMAIN cols : cols[i] = c})

\* the groups are as the constructor built them: _set_knots_scale_matrix has
\* not yet rewritten the scales
GroupsAsConstructed ==
    pc \in {"constructed", "_set_regressor_matrix", "_set_coefficients_kernel_matrix",
            "_set_knots_scale_matrix"}

\* the init-location, init-scale and knot-scale entries of a group are those
\* declared for the group's columns, position by position
GroupAligned(cols, init_knot_loc, init_knot_scale, knot_scale) ==
    /\ Len(init_knot_loc) = Len(cols)
    /\ Len(init_knot_scale) = Len(cols)
    /\ Len(knot_scale) = Len(cols)
    /\ \A i \in DOMAIN cols :
          /\ init_knot_loc[i] =
                DeclaredFor(args.regressor_init_knot_loc, DEFAULT_COEFFICIENTS_INIT_KNOT_LOC, cols[i])
          /\ init_knot_scale[i] =
                DeclaredFor(args.regressor_init_knot_scale, DEFAULT_COEFFICIENTS_INIT_KNOT_SCALE, cols[i])
          /\ knot_scale[i] =
                DeclaredFor(args.regressor_knot_scale, DEFAULT_COEFFICIENTS_KNOT_SCALE, cols[i])

\* C27: the positive and the unconstrained group partition the declared
\* regressors and keep their priors aligned: every declared column is once in
\* the concatenated list, the two counts sum to the number of declared
\* regressors, and at every position of a group the group's initial location,
\* initial scale and knot scale are those declared for the group's column at
\* that position.
C27_GroupsPartitionAndStayAligned ==
    GroupsAsConstructed =>
        /\ \A c \in Range(args.regressor_col) : Occurrences(self._regressor_col, c) = 1
        /\ Len(self._regressor_col) = Len(args.regressor_col)
        /\ self._num_of_positive_regressors + self._num_of_regular_regressors
              = Len(args.regressor_col)
        /\ self._num_of_positive_regressors = Len(self._positive_regressor_col)
        /\ self._num_of_regular_regressors = Len(self._regular_regressor_col)
        /\ GroupAligned(self._positive_regressor_col,
                        self._positive_regressor_init_knot_loc,
                        self._positive_regressor_init_knot_scale,
                        self._positive_regressor_knot_scale)
        /\ GroupAligned(self._regular_regressor_col,
                        self._regular_regressor_init_knot_loc,
                        self._regular_regressor_init_knot_scale,
                        self._regular_regressor_knot_scale)

\* one regressor in each group, the unconstrained one declared second, every
\* list supplied with a different value at each position
C27_Witness ==
    /\ GroupsAsConstructed
    /\ args.regressor_sign = <<"+", "=">>
    /\ args.regressor_knot_scale = GivenKnotScale(2)
    /\ args.regressor_init_knot_loc = GivenInitKnotLoc(2)
    /\ self._regular_regressor_col = <<"x2">>
    /\ self._regular_regressor_knot_scale = <<GivenKnotScale(2)[2]>>
    /\ self._positive_regressor_init_knot_loc = <<GivenInitKnotLoc(2)[1]>>

-----------------------------------------------------------------------------
(* C28: the values of the knot-scale multipliers *)

\* every entry of a multiplier array is 0.01 or 1.0
LowOrNeutral(mult) ==
    \A r \in DOMAIN mult : \A idx \in DOMAIN mult[r] :
        mult[r][idx] \in {DEFAULT_LOWER_BOUND_SCALE_MULTIPLIER, 100}

\* the rows of a regressor matrix whose column is zero in every observation
ZeroRegressors(matrix, num) ==
    {r \in 1..num : \A i \in DOMAIN matrix : matrix[i][r] = 0}

\* the multiplier of every all-zero regressor of the group is 1.0 at every knot
NeutralForZeroRegressors(mult, matrix, num) ==
    \A r \in ZeroRegressors(matrix, num) :
        /\ Len(mult[r]) = self.regression_segments
        /\ \A idx \in DOMAIN mult[r] : mult[r][idx] = 100

\* C28: after _set_knots_scale_matrix every knot-scale multiplier is exactly
\* 0.01 or exactly 1.0, never undefined, and a regressor that is zero in every
\* observation (global statistic zero) has multiplier 1.0 at every knot.
C28_MultipliersLowOrNeutral ==
    AfterKnotsScale =>
        /\ Len(multiplier.positive) = self._num_of_positive_regressors
        /\ Len(multiplier.regular) = self._num_of_regular_regressors
        /\ LowOrNeutral(multiplier.positive)
        /\ LowOrNeutral(multiplier.regular)
        /\ NeutralForZeroRegressors(multiplier.positive, self._positive_regressor_matrix,
                                    self._num_of_positive_regressors)
        /\ NeutralForZeroRegressors(multiplier.regular, self._regular_regressor_matrix,
                                    self._num_of_regular_regressors)

\* an all-zero positive regressor over two knots or more, next to a regressor
\* with a multiplier of 0.01, flat_multiplier off
C28_Witness ==
    /\ AfterKnotsScale
    /\ ~self.flat_multiplier
    /\ self.regression_segments >= 2
    /\ ZeroRegressors(self._positive_regressor_matrix, self._num_of_positive_regressors) # {}
    /\ \E r \in DOMAIN multiplier.positive : \E idx \in DOMAIN multiplier.positive[r] :
          multiplier.positive[r][idx] = DEFAULT_LOWER_BOUND_SCALE_MULTIPLIER

\* the same for an all-zero unconstrained regressor
C28_WitnessRegular ==
    /\ AfterKnotsScale
    /\ self.regression_segments >= 2
    /\ ZeroRegressors(self._regular_regressor_matrix, self._num_of_regular_regressors) # {}

-----------------------------------------------------------------------------
(* C29: the level knots kept by _set_levs_and_seas *)

\* _set_levs_and_seas returned
LevelKnotsRecorded == pc \in {"_filter_coef_prior", "fitted"}

\* the bootstrap's value for the level knot date d
BootstrapValueAt(d) ==
    ktrlite.lev_knot[CHOOSE i \in DOMAIN ktrlite.level_knot_dates : ktrlite.level_knot_dates[i] = d]

\* C29: after a successful _set_levs_and_seas the recorded number of level
\* knots, the number of kept level knot dates, of kept level knot values and
\* of level knot time positions are equal, and every kept value is the
\* bootstrap's value for the kept date at the same position: trimming does not
\* shift the pairing of dates and values.
C29_KeptLevelKnotsStayPaired ==
    LevelKnotsRecorded =>
        /\ Len(self._level_knot_dates) = self._num_knots_level
        /\ Len(self._level_knots) = self._num_knots_level
        /\ Len(self.knots_tp_level) = self._num_knots_level
        /\ \A k \in DOMAIN self._level_knot_dates :
              /\ self._level_knot_dates[k] \in Range(ktrlite.level_knot_dates)
              /\ self._level_knot_dates[k] >= training_meta.training_start
              /\ self._level_knot_dates[k] <= training_meta.training_end
              /\ self._level_knots[k] = BootstrapValueAt(self._level_knot_dates[k])
              /\ self.knots_tp_level[k] =
                    self._level_knot_dates[k] - training_meta.training_start + 1

\* a bootstrap date before the training dates was trimmed and two later ones kept
C29_Witness ==
    /\ LevelKnotsRecorded
    /\ Len(ktrlite.level_knot_dates) = 3
    /\ ktrlite.level_knot_dates[1] < training_meta.training_start
    /\ self._num_knots_level = 2
    /\ self._level_knots = <<ktrlite.lev_knot[2], ktrlite.lev_knot[3]>>

====
